---- MODULE Spec2Model ----
(***************************************************************************)
(* A model of the compiler front end and mid end of Python_CPP_Compiler:   *)
(* the parser's statement rules, the semantic analyzer with its symbol     *)
(* table, the IR generator and the IR optimizer.                           *)
(*                                                                         *)
(* Python objects are records.  A visitor method becomes a recursive       *)
(* operator that takes the visitor's state and returns the state after the *)
(* visit; a raised exception is the field exc of that state, and every     *)
(* operator returns at once when a sub-visit left exc set, unless the      *)
(* source has an except clause at that place.                              *)
(*                                                                         *)
(* Reading notes on the IR package.  IRInstruction declares its last field *)
(* as "lavel" (ir_instructions.py:139) and IRFunction declares             *)
(* "loval_vars" (:249), while every constructor call and every reader      *)
(* says "label" and "local_vars"; IROptimizer.optimize iterates            *)
(* "program.function" (ir_optimizer.py:39) while IRProgram declares        *)
(* "functions"; IRGenerator calls builder.clear() and                      *)
(* builder.get_instructions(), which IRBuilder does not define.  Taken     *)
(* literally each of these raises before a single instruction is emitted   *)
(* or optimized.  The model reads the names the way their uses read them,  *)
(* so that the algorithms of the generator and the optimizer are what is   *)
(* checked.                                                                *)
(***************************************************************************)
EXTENDS Integers, Sequences, FiniteSets, TLC

VARIABLES
    ast,        \* Program.declarations, the list of top-level declarations
    stage,      \* the stage the pipeline has reached
    ir,         \* [functions, exc]: IRProgram.functions, and the exception raised
    ir0,        \* IRProgram.functions as generated, before optimize_ir
    optlevel,   \* the level optimize_ir was called with, -1 before the call
    input,      \* the token list the parser is given, <<>> if the AST is given
    sa,         \* the SemanticAnalyzer object
    ok          \* what analyze returned: "True" or "False", "none" before the call

vars == <<ast, stage, ir, ir0, optlevel, input, sa, ok>>

(***************************************************************************)
(* Bounds of the model.                                                    *)
(***************************************************************************)
MaxDepth == 3       \* control statements nested in one another in the inputs
MaxCases == 2       \* clauses of a switch statement in the inputs
MaxStmts == 3       \* statements of a straight-line function body
MaxVal == 2         \* parameter values range over 0..MaxVal when IR is executed
MaxSteps == 40      \* instructions executed before an IR run counts as diverging

(***************************************************************************)
(* IR values and instructions (ir_instructions.py).                        *)
(***************************************************************************)
None == [k |-> "none"]
IRTemp(name) == [k |-> "temp", n |-> name]
IRConstant(value) == [k |-> "const", v |-> value]
IRVariable(name) == [k |-> "var", n |-> name]
IRLabel(name) == [k |-> "label", n |-> name]

IsTempOrVar(x) == x.k \in {"temp", "var"}

IRInstruction(opcode, result, arg1, arg2, label) ==
    [opcode |-> opcode, result |-> result, arg1 |-> arg1, arg2 |-> arg2,
     arg3 |-> None, label |-> label]

IRFunction(name, parameters, instructions) ==
    [name |-> name, parameters |-> parameters, instructions |-> instructions]

\* str(n) of a counter value, as the f-strings of new_temp and new_label use it
Digit == <<"0", "1", "2", "3", "4", "5", "6", "7", "8", "9">>
RECURSIVE IntStr(_)
IntStr(i) == IF i < 10 THEN Digit[i + 1]
             ELSE IntStr(i \div 10) \o Digit[(i % 10) + 1]


(***************************************************************************)
(* AST nodes (ast_nodes.py).  An absent child (Python None) is NoNode.     *)
(***************************************************************************)
NoNode == [kind |-> "None"]
IntegerLiteral(value) == [kind |-> "IntegerLiteral", value |-> value]
Identifier(name) == [kind |-> "Identifier", name |-> name]
BinaryExpression(left, operator, right) ==
    [kind |-> "BinaryExpression", left |-> left, operator |-> operator, right |-> right]
UnaryExpression(operator, operand, is_postfix) ==
    [kind |-> "UnaryExpression", operator |-> operator, operand |-> operand,
     is_postfix |-> is_postfix]
AssignmentExpression(target, operator, value) ==
    [kind |-> "AssignmentExpression", target |-> target, operator |-> operator,
     value |-> value]
TernaryExpression(condition, true_expr, false_expr) ==
    [kind |-> "TernaryExpression", condition |-> condition, true_expr |-> true_expr,
     false_expr |-> false_expr]
CompoundStatement(statements) == [kind |-> "CompoundStatement", statements |-> statements]
ExpressionStatement(expression) == [kind |-> "ExpressionStatement", expression |-> expression]
ReturnStatement(value) == [kind |-> "ReturnStatement", value |-> value]
IfStatement(condition, then_statement, else_statement) ==
    [kind |-> "IfStatement", condition |-> condition, then_statement |-> then_statement,
     else_statement |-> else_statement]
WhileStatement(condition, body) ==
    [kind |-> "WhileStatement", condition |-> condition, body |-> body]
DoWhileStatement(body, condition) ==
    [kind |-> "DoWhileStatement", body |-> body, condition |-> condition]
ForStatement(init, condition, increment, body) ==
    [kind |-> "ForStatement", init |-> init, condition |-> condition,
     increment |-> increment, body |-> body]
BreakStatement == [kind |-> "BreakStatement"]
ContinueStatement == [kind |-> "ContinueStatement"]
SwitchStatement(condition, cases) ==
    [kind |-> "SwitchStatement", condition |-> condition, cases |-> cases]
CaseStatement(value, statements) ==
    [kind |-> "CaseStatement", value |-> value, statements |-> statements]
PrimitiveType(name, is_signed) == [kind |-> "PrimitiveType", name |-> name, is_signed |-> is_signed]
Parameter(param_type, name) == [kind |-> "Parameter", param_type |-> param_type, name |-> name]
FunctionDeclaration(return_type, name, parameters, body) ==
    [kind |-> "FunctionDeclaration", return_type |-> return_type, name |-> name,
     parameters |-> parameters, body |-> body]
VariableDeclaration(var_type, name, initializer) ==
    [kind |-> "VariableDeclaration", var_type |-> var_type, name |-> name,
     initializer |-> initializer]
NamespaceDeclaration(name, declarations) ==
    [kind |-> "NamespaceDeclaration", name |-> name, declarations |-> declarations]
MemberInitializer(member_name, value) ==
    [kind |-> "MemberInitializer", member_name |-> member_name, value |-> value]
ConstructorDeclaration(class_name, parameters, initializer_list, body) ==
    [kind |-> "ConstructorDeclaration", class_name |-> class_name,
     parameters |-> parameters, initializer_list |-> initializer_list, body |-> body]
DestructorDeclaration(class_name, body) ==
    [kind |-> "DestructorDeclaration", class_name |-> class_name, body |-> body]

(***************************************************************************)
(* IRBuilder and IRGenerator (ir_instructions.py, ir_generator.py).        *)
(* The generator state g holds the builder's fields and the generator's.   *)
(* var_map maps a name to IRVariable(name) and to nothing else, so it is   *)
(* kept as the set of its keys.                                            *)
(***************************************************************************)
NewGenerator ==
    [instructions |-> <<>>, temp_counter |-> 0, label_counter |-> 0,
     break_labels |-> <<>>, continue_labels |-> <<>>, var_map |-> {},
     functions |-> <<>>, current_function |-> "None", exc |-> "none"]

new_temp(g) ==
    [g |-> [g EXCEPT !.temp_counter = @ + 1],
     val |-> IRTemp("t" \o IntStr(g.temp_counter))]

new_label(g, prefix) ==
    [g |-> [g EXCEPT !.label_counter = @ + 1],
     val |-> IRLabel(prefix \o IntStr(g.label_counter))]

emit(g, instruction) == [g EXCEPT !.instructions = Append(@, instruction)]
emit_assign(g, result, arg1) == emit(g, IRInstruction("ASSIGN", result, arg1, None, None))
emit_label(g, label) == emit(g, IRInstruction("LABEL", None, None, None, label))
emit_goto(g, label) == emit(g, IRInstruction("GOTO", None, None, None, label))
emit_if_false(g, condition, label) ==
    emit(g, IRInstruction("IF_FALSE", None, condition, None, label))
emit_if_true(g, condition, label) ==
    emit(g, IRInstruction("IF_TRUE", None, condition, None, label))
emit_return(g, value) == emit(g, IRInstruction("RETURN", None, value, None, None))

\* clear() is called by the generator and not defined by IRBuilder: it starts the
\* instruction list of the next function
clear(g) == [g EXCEPT !.instructions = <<>>]

Raise(g, e) == [g EXCEPT !.exc = e]
Raised(g) == g.exc # "none"

\* op_map of visit_binary_expression
BinaryOpMap ==
    ("+" :> "ADD") @@ ("-" :> "SUB") @@ ("*" :> "MUL") @@ ("/" :> "DIV") @@
    ("%" :> "MOD") @@ ("&" :> "AND") @@ ("|" :> "OR") @@ ("^" :> "XOR") @@
    ("<<" :> "SHL") @@ (">>" :> "SHR") @@ ("&&" :> "LAND") @@ ("||" :> "LOR") @@
    ("==" :> "EQ") @@ ("!=" :> "NE") @@ ("<" :> "LT") @@ ("<=" :> "LE") @@
    (">" :> "GT") @@ (">=" :> "GE")

\* op_map of visit_unary_expression
UnaryOpMap == ("-" :> "NEG") @@ ("~" :> "NOT") @@ ("!" :> "LNOT")

\* op_map of visit_assignment_expression
AssignOpMap ==
    ("+=" :> "ADD") @@ ("-=" :> "SUB") @@ ("*=" :> "MUL") @@ ("/=" :> "DIV") @@
    ("%=" :> "MOD") @@ ("&=" :> "AND") @@ ("|=" :> "OR") @@ ("^=" :> "XOR") @@
    ("<<=" :> "SHL") @@ (">>=" :> "SHR")


(***************************************************************************)
(* IRGenerator visitor methods.  Each takes the node and the generator     *)
(* state and returns [g |-> state after, val |-> the IRValue returned].    *)
(***************************************************************************)
R(g, val) == [g |-> g, val |-> val]

RECURSIVE IRGen_accept(_, _)
RECURSIVE IRGen_accept_all(_, _, _)

IRGen_visit_integer_literal(node, g) == R(g, IRConstant(node.value))

IRGen_visit_identifier(node, g) ==
    R([g EXCEPT !.var_map = @ \cup {node.name}], IRVariable(node.name))

IRGen_visit_binary_expression(node, g) ==
    LET left == IRGen_accept(node.left, g) IN
    IF Raised(left.g) THEN left ELSE
    LET right == IRGen_accept(node.right, left.g) IN
    IF Raised(right.g) THEN right ELSE
    IF node.operator \in DOMAIN BinaryOpMap
    THEN LET result == new_temp(right.g) IN
         R(emit(result.g, IRInstruction(BinaryOpMap[node.operator], result.val,
                                        left.val, right.val, None)),
           result.val)
    ELSE R(Raise(right.g, "IRGeneratorError"), None)

IRGen_visit_unary_expression(node, g) ==
    LET operand == IRGen_accept(node.operand, g) IN
    IF Raised(operand.g) THEN operand ELSE
    IF node.operator \in DOMAIN UnaryOpMap
    THEN LET result == new_temp(operand.g) IN
         R(emit(result.g, IRInstruction(UnaryOpMap[node.operator], result.val,
                                        operand.val, None, None)),
           result.val)
    ELSE IF node.operator \in {"++", "--"}
    THEN LET one == IRConstant(1)
             result == new_temp(operand.g)
             g1 == emit(result.g,
                        IRInstruction(IF node.operator = "++" THEN "ADD" ELSE "SUB",
                                      result.val, operand.val, one, None))
             g2 == emit_assign(g1, operand.val, result.val)
         IN  IF node.is_postfix THEN R(g2, operand.val) ELSE R(g2, result.val)
    ELSE IF node.operator = "&"
    THEN LET result == new_temp(operand.g) IN
         R(emit(result.g, IRInstruction("LOAD_ADDR", result.val, operand.val, None, None)),
           result.val)
    ELSE IF node.operator = "*"
    THEN LET result == new_temp(operand.g) IN
         R(emit(result.g, IRInstruction("LOAD", result.val, operand.val, None, None)),
           result.val)
    ELSE R(Raise(operand.g, "IRGeneratorError"), None)

IRGen_visit_assignment_expression(node, g) ==
    LET value == IRGen_accept(node.value, g) IN
    IF Raised(value.g) THEN value ELSE
    LET target == IRGen_accept(node.target, value.g) IN
    IF Raised(target.g) THEN target ELSE
    IF node.operator = "="
    THEN R(emit_assign(target.g, target.val, value.val), target.val)
    ELSE IF node.operator \in DOMAIN AssignOpMap
    THEN LET temp == new_temp(target.g)
             g1 == emit(temp.g, IRInstruction(AssignOpMap[node.operator], temp.val,
                                              target.val, value.val, None))
         IN  R(emit_assign(g1, target.val, temp.val), target.val)
    ELSE R(Raise(target.g, "IRGeneratorError"), None)

IRGen_visit_ternary_expression(node, g) ==
    LET condition == IRGen_accept(node.condition, g) IN
    IF Raised(condition.g) THEN condition ELSE
    LET true_label == new_label(condition.g, "ternary_true")
        false_label == new_label(true_label.g, "ternary_false")
        end_label == new_label(false_label.g, "ternary_end")
        result == new_temp(end_label.g)
        g1 == emit_if_false(result.g, condition.val, false_label.val)
        g2 == emit_label(g1, true_label.val)
        true_value == IRGen_accept(node.true_expr, g2)
    IN  IF Raised(true_value.g) THEN true_value ELSE
    LET g3 == emit_assign(true_value.g, result.val, true_value.val)
        g4 == emit_goto(g3, end_label.val)
        g5 == emit_label(g4, false_label.val)
        false_value == IRGen_accept(node.false_expr, g5)
    IN  IF Raised(false_value.g) THEN false_value ELSE
    LET g6 == emit_assign(false_value.g, result.val, false_value.val)
    IN  R(emit_label(g6, end_label.val), result.val)

IRGen_visit_compound_statement(node, g) == IRGen_accept_all(node.statements, 1, g)

IRGen_visit_expression_statement(node, g) ==
    R(IRGen_accept(node.expression, g).g, None)

IRGen_visit_return_statement(node, g) ==
    IF node.value # NoNode
    THEN LET return_value == IRGen_accept(node.value, g) IN
         IF Raised(return_value.g) THEN return_value
         ELSE R(emit_return(return_value.g, return_value.val), None)
    ELSE R(emit_return(g, None), None)

IRGen_visit_if_statement(node, g) ==
    LET condition == IRGen_accept(node.condition, g) IN
    IF Raised(condition.g) THEN condition ELSE
    LET else_label == new_label(condition.g, "else")
        end_label == new_label(else_label.g, "endif")
        g1 == emit_if_false(end_label.g, condition.val, else_label.val)
        then == IRGen_accept(node.then_statement, g1)
    IN  IF Raised(then.g) THEN then ELSE
    LET g2 == emit_goto(then.g, end_label.val)
        g3 == emit_label(g2, else_label.val)
        els == IF node.else_statement # NoNode
               THEN IRGen_accept(node.else_statement, g3) ELSE R(g3, None)
    IN  IF Raised(els.g) THEN els ELSE R(emit_label(els.g, end_label.val), None)

\* break_labels.append / continue_labels.append and the two pops
PushLabels(g, brk, cont) ==
    [g EXCEPT !.break_labels = Append(@, brk), !.continue_labels = Append(@, cont)]
PopLabels(g) ==
    [g EXCEPT !.break_labels = SubSeq(@, 1, Len(@) - 1),
              !.continue_labels = SubSeq(@, 1, Len(@) - 1)]

\* visit_while_statement without the emit_label(end_label) that closes the loop
while_statement_without_end_label(node, g) ==
    LET start_label == new_label(g, "while_start")
        end_label == new_label(start_label.g, "while_end")
        g1 == PushLabels(end_label.g, end_label.val, start_label.val)
        g2 == emit_label(g1, start_label.val)
        condition == IRGen_accept(node.condition, g2)
    IN  IF Raised(condition.g) THEN condition ELSE
    LET g3 == emit_if_false(condition.g, condition.val, end_label.val)
        body == IRGen_accept(node.body, g3)
    IN  IF Raised(body.g) THEN body ELSE
    R(PopLabels(emit_goto(body.g, start_label.val)), None)

IRGen_visit_while_statement(node, g) ==
    LET start_label == new_label(g, "while_start")
        end_label == new_label(start_label.g, "while_end")
        g1 == PushLabels(end_label.g, end_label.val, start_label.val)
        g2 == emit_label(g1, start_label.val)
        condition == IRGen_accept(node.condition, g2)
    IN  IF Raised(condition.g) THEN condition ELSE
    LET g3 == emit_if_false(condition.g, condition.val, end_label.val)
        body == IRGen_accept(node.body, g3)
    IN  IF Raised(body.g) THEN body ELSE
    LET g4 == emit_goto(body.g, start_label.val)
        g5 == emit_label(g4, end_label.val)
    IN  R(PopLabels(g5), None)

IRGen_visit_do_while_statement(node, g) ==
    LET start_label == new_label(g, "do_start")
        end_label == new_label(start_label.g, "do_end")
        g1 == PushLabels(end_label.g, end_label.val, start_label.val)
        g2 == emit_label(g1, start_label.val)
        body == IRGen_accept(node.body, g2)
    IN  IF Raised(body.g) THEN body ELSE
    LET condition == IRGen_accept(node.condition, body.g) IN
    IF Raised(condition.g) THEN condition ELSE
    LET g3 == emit_if_true(condition.g, condition.val, start_label.val)
        g4 == emit_label(g3, end_label.val)
    IN  R(PopLabels(g4), None)

\* visit_for_statement with start_label as the label of continue
for_statement_continuing_at_start(node, g) ==
    LET start_label == new_label(g, "for_start")
        increment_label == new_label(start_label.g, "for_incr")
        end_label == new_label(increment_label.g, "for_end")
        g1 == PushLabels(end_label.g, end_label.val, start_label.val)
        init == IF node.init # NoNode THEN IRGen_accept(node.init, g1) ELSE R(g1, None)
    IN  IF Raised(init.g) THEN init ELSE
    LET g2 == emit_label(init.g, start_label.val)
        condition == IF node.condition # NoNode
                     THEN IRGen_accept(node.condition, g2) ELSE R(g2, None)
    IN  IF Raised(condition.g) THEN condition ELSE
    LET g3 == IF node.condition # NoNode
              THEN emit_if_false(condition.g, condition.val, end_label.val)
              ELSE condition.g
        body == IRGen_accept(node.body, g3)
    IN  IF Raised(body.g) THEN body ELSE
    LET g4 == emit_label(body.g, increment_label.val)
        increment == IF node.increment # NoNode
                     THEN IRGen_accept(node.increment, g4) ELSE R(g4, None)
    IN  IF Raised(increment.g) THEN increment ELSE
    LET g5 == emit_goto(increment.g, start_label.val)
        g6 == emit_label(g5, end_label.val)
    IN  R(PopLabels(g6), None)

IRGen_visit_for_statement(node, g) ==
    LET start_label == new_label(g, "for_start")
        increment_label == new_label(start_label.g, "for_incr")
        end_label == new_label(increment_label.g, "for_end")
        g1 == PushLabels(end_label.g, end_label.val, increment_label.val)
        init == IF node.init # NoNode THEN IRGen_accept(node.init, g1) ELSE R(g1, None)
    IN  IF Raised(init.g) THEN init ELSE
    LET g2 == emit_label(init.g, start_label.val)
        condition == IF node.condition # NoNode
                     THEN IRGen_accept(node.condition, g2) ELSE R(g2, None)
    IN  IF Raised(condition.g) THEN condition ELSE
    LET g3 == IF node.condition # NoNode
              THEN emit_if_false(condition.g, condition.val, end_label.val)
              ELSE condition.g
        body == IRGen_accept(node.body, g3)
    IN  IF Raised(body.g) THEN body ELSE
    LET g4 == emit_label(body.g, increment_label.val)
        increment == IF node.increment # NoNode
                     THEN IRGen_accept(node.increment, g4) ELSE R(g4, None)
    IN  IF Raised(increment.g) THEN increment ELSE
    LET g5 == emit_goto(increment.g, start_label.val)
        g6 == emit_label(g5, end_label.val)
    IN  R(PopLabels(g6), None)

IRGen_visit_break_statement(node, g) ==
    IF g.break_labels # <<>>
    THEN R(emit_goto(g, g.break_labels[Len(g.break_labels)]), None)
    ELSE R(g, None)

IRGen_visit_continue_statement(node, g) ==
    IF g.continue_labels # <<>>
    THEN R(emit_goto(g, g.continue_labels[Len(g.continue_labels)]), None)
    ELSE R(g, None)


IRGen_visit_switch_statement(node, g) ==
    LET switch_value == IRGen_accept(node.condition, g) IN
    IF Raised(switch_value.g) THEN switch_value ELSE
    LET end_label == new_label(switch_value.g, "switch_end")
        g1 == [end_label.g EXCEPT !.break_labels = Append(@, end_label.val)]
        cases == node.cases
        \* first loop: one label per clause; default_label is overwritten by
        \* every default clause
        RECURSIVE Labels(_, _)
        Labels(i, st) ==
            IF i > Len(cases) THEN st
            ELSE IF cases[i].value = NoNode
            THEN LET l == new_label(st.g, "default") IN
                 Labels(i + 1, [st EXCEPT !.g = l.g, !.default_label = l.val])
            ELSE LET l == new_label(st.g, "case") IN
                 Labels(i + 1, [st EXCEPT !.g = l.g,
                                          !.case_labels = Append(@, l.val)])
        ls == Labels(1, [g |-> g1, case_labels |-> <<>>, default_label |-> None])
        \* second loop: the comparisons
        RECURSIVE Compare(_, _, _)
        Compare(i, case_idx, gg) ==
            IF i > Len(cases) \/ Raised(gg) THEN gg
            ELSE IF cases[i].value # NoNode
            THEN LET case_value == IRGen_accept(cases[i].value, gg) IN
                 IF Raised(case_value.g) THEN case_value.g ELSE
                 LET temp == new_temp(case_value.g)
                     ga == emit(temp.g, IRInstruction("EQ", temp.val, switch_value.val,
                                                      case_value.val, None))
                     gb == emit_if_true(ga, temp.val, ls.case_labels[case_idx + 1])
                 IN  Compare(i + 1, case_idx + 1, gb)
            ELSE Compare(i + 1, case_idx, gg)
        g2 == Compare(1, 0, ls.g)
    IN  IF Raised(g2) THEN R(g2, None) ELSE
    LET g3 == IF ls.default_label # None
              THEN emit_goto(g2, ls.default_label)
              ELSE emit_goto(g2, end_label.val)
        \* third loop: the clause bodies
        RECURSIVE Bodies(_, _, _)
        Bodies(i, case_idx, gg) ==
            IF i > Len(cases) \/ Raised(gg) THEN gg
            ELSE LET isdefault == cases[i].value = NoNode
                     ga == IF isdefault THEN emit_label(gg, ls.default_label)
                           ELSE emit_label(gg, ls.case_labels[case_idx + 1])
                     gb == IRGen_accept_all(cases[i].statements, 1, ga).g
                 IN  Bodies(i + 1, IF isdefault THEN case_idx ELSE case_idx + 1, gb)
        g4 == Bodies(1, 0, g3)
    IN  IF Raised(g4) THEN R(g4, None) ELSE
    LET g5 == emit_label(g4, end_label.val)
    IN  R([g5 EXCEPT !.break_labels = SubSeq(@, 1, Len(@) - 1)], None)

IRGen_visit_member_initializer(node, g) ==
    LET value == IRGen_accept(node.value, g) IN
    IF Raised(value.g) THEN value
    ELSE R(emit_assign(value.g, IRVariable(node.member_name), value.val), None)

\* the parameter loop of the function and constructor visitors
ParamVars(parameters) == [i \in 1..Len(parameters) |-> IRVariable(parameters[i].name)]
ParamNames(parameters) == {parameters[i].name : i \in 1..Len(parameters)}

\* visit_function_declaration without the emit_return(None) after a body that
\* does not end with a RETURN
function_declaration_without_return(node, g) ==
    IF node.body = NoNode THEN R(g, None) ELSE
    LET g1 == [clear(g) EXCEPT !.current_function = node.name,
                               !.var_map = @ \cup ParamNames(node.parameters)]
        body == IRGen_accept(node.body, g1)
    IN  IF Raised(body.g) THEN body ELSE
    LET function == IRFunction(node.name, ParamVars(node.parameters),
                               body.g.instructions)
    IN  R([body.g EXCEPT !.functions = Append(@, function), !.current_function = "None"],
          None)

IRGen_visit_function_declaration(node, g) ==
    IF node.body = NoNode THEN R(g, None) ELSE
    LET g1 == [clear(g) EXCEPT !.current_function = node.name,
                               !.var_map = @ \cup ParamNames(node.parameters)]
        body == IRGen_accept(node.body, g1)
    IN  IF Raised(body.g) THEN body ELSE
    LET n == Len(body.g.instructions)
        g2 == IF n = 0 \/ body.g.instructions[n].opcode # "RETURN"
              THEN emit_return(body.g, None) ELSE body.g
        function == IRFunction(node.name, ParamVars(node.parameters), g2.instructions)
    IN  R([g2 EXCEPT !.functions = Append(@, function), !.current_function = "None"],
          None)

IRGen_visit_constructor_declaration(node, g) ==
    LET name == node.class_name \o "::constructor"
        g1 == [clear(g) EXCEPT !.current_function = name,
                               !.var_map = @ \cup ParamNames(node.parameters)]
        inits == IRGen_accept_all(node.initializer_list, 1, g1)
    IN  IF Raised(inits.g) THEN inits ELSE
    LET body == IF node.body # NoNode THEN IRGen_accept(node.body, inits.g)
                ELSE R(inits.g, None)
    IN  IF Raised(body.g) THEN body ELSE
    LET g2 == emit_return(body.g, None)
        function == IRFunction(name, ParamVars(node.parameters), g2.instructions)
    IN  R([g2 EXCEPT !.functions = Append(@, function), !.current_function = "None"],
          None)

IRGen_visit_destructor_declaration(node, g) ==
    LET name == node.class_name \o "::destructor"
        g1 == [clear(g) EXCEPT !.current_function = name]
        body == IF node.body # NoNode THEN IRGen_accept(node.body, g1) ELSE R(g1, None)
    IN  IF Raised(body.g) THEN body ELSE
    LET g2 == emit_return(body.g, None)
        function == IRFunction(name, <<>>, g2.instructions)
    IN  R([g2 EXCEPT !.functions = Append(@, function), !.current_function = "None"],
          None)

\* node.accept(self): the dispatch of ast_nodes.py to the visitor method
IRGen_accept(node, g) ==
    CASE node.kind = "IntegerLiteral" -> IRGen_visit_integer_literal(node, g)
      [] node.kind = "Identifier" -> IRGen_visit_identifier(node, g)
      [] node.kind = "BinaryExpression" -> IRGen_visit_binary_expression(node, g)
      [] node.kind = "UnaryExpression" -> IRGen_visit_unary_expression(node, g)
      [] node.kind = "AssignmentExpression" -> IRGen_visit_assignment_expression(node, g)
      [] node.kind = "TernaryExpression" -> IRGen_visit_ternary_expression(node, g)
      [] node.kind = "CompoundStatement" -> IRGen_visit_compound_statement(node, g)
      [] node.kind = "ExpressionStatement" -> IRGen_visit_expression_statement(node, g)
      [] node.kind = "ReturnStatement" -> IRGen_visit_return_statement(node, g)
      [] node.kind = "IfStatement" -> IRGen_visit_if_statement(node, g)
      [] node.kind = "WhileStatement" -> IRGen_visit_while_statement(node, g)
      [] node.kind = "DoWhileStatement" -> IRGen_visit_do_while_statement(node, g)
      [] node.kind = "ForStatement" -> IRGen_visit_for_statement(node, g)
      [] node.kind = "BreakStatement" -> IRGen_visit_break_statement(node, g)
      [] node.kind = "ContinueStatement" -> IRGen_visit_continue_statement(node, g)
      [] node.kind = "SwitchStatement" -> IRGen_visit_switch_statement(node, g)
      [] node.kind = "MemberInitializer" -> IRGen_visit_member_initializer(node, g)
      [] node.kind = "FunctionDeclaration" -> IRGen_visit_function_declaration(node, g)
      [] node.kind = "ConstructorDeclaration" ->
             IRGen_visit_constructor_declaration(node, g)
      [] node.kind = "DestructorDeclaration" ->
             IRGen_visit_destructor_declaration(node, g)
      \* IRGenerator has no visitor method for the other nodes
      [] OTHER -> R(Raise(g, "AttributeError"), None)

\* "for x in xs: x.accept(self)", from element i on
IRGen_accept_all(nodes, i, g) ==
    IF i > Len(nodes) \/ Raised(g) THEN R(g, None)
    ELSE IRGen_accept_all(nodes, i + 1, IRGen_accept(nodes[i], g).g)


(***************************************************************************)
(* IROptimizer (ir_optimizer.py).  A pass takes and returns                *)
(* [instructions |-> function.instructions, changed |-> self.changed].     *)
(* A Python value that may be None is a sequence of length 0 or 1.         *)
(***************************************************************************)
\* Python's // and % on integers: the quotient is rounded toward minus infinity
FloorDiv(a, b) == IF b > 0 THEN a \div b ELSE (-a) \div (-b)
PyMod(a, b) == a - b * FloorDiv(a, b)

\* Python's &, | and ^ on integers of either sign (two's complement, unbounded)
RECURSIVE BitOp(_, _, _)
BitOp(op, a, b) ==
    IF a \in {0, -1} /\ b \in {0, -1}
    THEN LET x == a = -1
             y == b = -1
             z == CASE op = "AND" -> x /\ y
                    [] op = "OR" -> x \/ y
                    [] op = "XOR" -> x # y
         IN  IF z THEN -1 ELSE 0
    ELSE LET x == a % 2
             y == b % 2
             z == CASE op = "AND" -> x * y
                    [] op = "OR" -> IF x + y > 0 THEN 1 ELSE 0
                    [] op = "XOR" -> (x + y) % 2
         IN  2 * BitOp(op, FloorDiv(a, 2), FloorDiv(b, 2)) + z

RECURSIVE Pow2(_)
Pow2(n) == IF n = 0 THEN 1 ELSE 2 * Pow2(n - 1)

evaluate_binary_op(opcode, left, right) ==
    CASE opcode = "ADD" -> <<left + right>>
      [] opcode = "SUB" -> <<left - right>>
      [] opcode = "MUL" -> <<left * right>>
      [] opcode = "DIV" -> IF right = 0 THEN <<>> ELSE <<FloorDiv(left, right)>>
      [] opcode = "MOD" -> IF right = 0 THEN <<>> ELSE <<PyMod(left, right)>>
      [] opcode \in {"AND", "OR", "XOR"} -> <<BitOp(opcode, left, right)>>
      \* a negative shift count raises ValueError, which the except clause turns
      \* into None
      [] opcode = "SHL" -> IF right < 0 THEN <<>> ELSE <<left * Pow2(right)>>
      [] opcode = "SHR" -> IF right < 0 THEN <<>> ELSE <<FloorDiv(left, Pow2(right))>>
      [] opcode = "LAND" -> <<IF left # 0 /\ right # 0 THEN 1 ELSE 0>>
      [] opcode = "LOR" -> <<IF left # 0 \/ right # 0 THEN 1 ELSE 0>>
      [] opcode = "EQ" -> <<IF left = right THEN 1 ELSE 0>>
      [] opcode = "NE" -> <<IF left # right THEN 1 ELSE 0>>
      [] opcode = "LT" -> <<IF left < right THEN 1 ELSE 0>>
      [] opcode = "LE" -> <<IF left <= right THEN 1 ELSE 0>>
      [] opcode = "GT" -> <<IF left > right THEN 1 ELSE 0>>
      [] opcode = "GE" -> <<IF left >= right THEN 1 ELSE 0>>
      [] OTHER -> <<>>

is_binary_arithmetic(instr) ==
    instr.opcode \in {"ADD", "SUB", "MUL", "DIV", "MOD", "AND", "OR", "XOR", "SHL",
                      "SHR", "LAND", "LOR", "EQ", "NE", "LT", "LE", "GT", "GE"}

constant_folding(f) ==
    LET RECURSIVE Loop(_, _, _)
        Loop(i, instrs, changed) ==
            IF i > Len(instrs) THEN [instructions |-> instrs, changed |-> changed]
            ELSE
            LET instr == instrs[i] IN
            IF ~is_binary_arithmetic(instr) THEN Loop(i + 1, instrs, changed)
            ELSE IF instr.arg1.k # "const" \/ instr.arg2.k # "const"
            THEN Loop(i + 1, instrs, changed)
            ELSE LET result == evaluate_binary_op(instr.opcode, instr.arg1.v,
                                                  instr.arg2.v)
                 IN  IF result # <<>>
                     THEN Loop(i + 1,
                               [instrs EXCEPT ![i] = IRInstruction("ASSIGN", instr.result,
                                                         IRConstant(result[1]), None, None)],
                               TRUE)
                     ELSE Loop(i + 1, instrs, changed)
    IN  Loop(1, f.instructions, f.changed)

\* a dict with one key set, and with one key deleted
DictSet(d, key, value) == [x \in DOMAIN d \cup {key} |-> IF x = key THEN value ELSE d[x]]
DictDel(d, key) == [x \in DOMAIN d \ {key} |-> d[x]]

constant_propagation(f) ==
    LET RECURSIVE Loop(_, _, _, _)
        Loop(i, instrs, const_map, changed) ==
            IF i > Len(instrs) THEN [instructions |-> instrs, changed |-> changed]
            ELSE
            LET instr == instrs[i]
                \* track constant assignments
                m1 == IF /\ instr.opcode = "ASSIGN"
                         /\ IsTempOrVar(instr.result)
                         /\ instr.arg1.k = "const"
                      THEN DictSet(const_map, instr.result.n, instr.arg1.v)
                      ELSE const_map
                \* the replacement of arg2 and the eviction of the result are nested
                \* in the test of arg1
                outer == IsTempOrVar(instr.arg1)
                rep1 == outer /\ instr.arg1.n \in DOMAIN m1
                rep2 == outer /\ IsTempOrVar(instr.arg2) /\ instr.arg2.n \in DOMAIN m1
                evict == outer /\ IsTempOrVar(instr.result)
                               /\ instr.result.n \in DOMAIN m1
                new == [instr EXCEPT
                          !.arg1 = IF rep1 THEN IRConstant(m1[instr.arg1.n]) ELSE @,
                          !.arg2 = IF rep2 THEN IRConstant(m1[instr.arg2.n]) ELSE @]
                m2 == IF evict THEN DictDel(m1, instr.result.n) ELSE m1
            IN  Loop(i + 1, [instrs EXCEPT ![i] = new], m2, changed \/ rep1 \/ rep2)
    IN  Loop(1, f.instructions, <<>>, f.changed)

copy_propagation(f) ==
    LET RECURSIVE Loop(_, _, _, _)
        Loop(i, instrs, copy_map, changed) ==
            IF i > Len(instrs) THEN [instructions |-> instrs, changed |-> changed]
            ELSE
            LET instr == instrs[i]
                \* track simple copies
                m1 == IF /\ instr.opcode = "ASSIGN"
                         /\ IsTempOrVar(instr.result)
                         /\ IsTempOrVar(instr.arg1)
                      THEN DictSet(copy_map, instr.result.n, instr.arg1)
                      ELSE copy_map
                rep1 == IsTempOrVar(instr.arg1) /\ instr.arg1.n \in DOMAIN m1
                rep2 == IsTempOrVar(instr.arg2) /\ instr.arg2.n \in DOMAIN m1
                new == [instr EXCEPT
                          !.arg1 = IF rep1 THEN m1[instr.arg1.n] ELSE @,
                          !.arg2 = IF rep2 THEN m1[instr.arg2.n] ELSE @]
                \* the result is looked up in the map the copy was just entered in
                m2 == IF IsTempOrVar(instr.result) /\ instr.result.n \in DOMAIN m1
                      THEN DictDel(m1, instr.result.n) ELSE m1
            IN  Loop(i + 1, [instrs EXCEPT ![i] = new], m2, changed \/ rep1 \/ rep2)
    IN  Loop(1, f.instructions, <<>>, f.changed)

\* str() of an IRValue
Str(x) == IF x.k = "const"
          THEN (IF x.v < 0 THEN "-" \o IntStr(-x.v) ELSE IntStr(x.v))
          ELSE x.n

SideEffectOpcodes ==
    {"RETURN", "CALL", "STORE", "STORE_INDEX", "GOTO", "IF_FALSE", "IF_TRUE", "LABEL",
     "PARAM", "FREE"}

\* dead_code_elimination with the kept instructions appended to the list of the
\* function instead of to a new list
dead_code_elimination_appending(f) ==
    LET instrs == f.instructions
        used == {instrs[i].arg1.n : i \in {j \in 1..Len(instrs) : IsTempOrVar(instrs[j].arg1)}}
                \cup
                {instrs[i].arg2.n : i \in {j \in 1..Len(instrs) : IsTempOrVar(instrs[j].arg2)}}
        Keep(instr) == \/ instr.result = None
                       \/ Str(instr.result) \in used
                       \/ instr.opcode \in SideEffectOpcodes
    IN  [instructions |-> instrs \o SelectSeq(instrs, Keep), changed |-> f.changed]

dead_code_elimination(f) ==
    LET instrs == f.instructions
        used == {instrs[i].arg1.n : i \in {j \in 1..Len(instrs) : IsTempOrVar(instrs[j].arg1)}}
                \cup
                {instrs[i].arg2.n : i \in {j \in 1..Len(instrs) : IsTempOrVar(instrs[j].arg2)}}
                \cup
                {instrs[i].arg3.n : i \in {j \in 1..Len(instrs) : IsTempOrVar(instrs[j].arg3)}}
        Keep(instr) == \/ instr.result = None
                       \/ Str(instr.result) \in used
                       \/ instr.opcode \in SideEffectOpcodes
    IN  [instructions |-> SelectSeq(instrs, Keep),
         changed |-> f.changed \/ \E i \in 1..Len(instrs) : ~Keep(instrs[i])]

remove_nops(f) ==
    LET NotNop(instr) == instr.opcode # "NOP"
    IN  [instructions |-> SelectSeq(f.instructions, NotNop),
         changed |-> f.changed \/ \E i \in 1..Len(f.instructions) :
                         ~NotNop(f.instructions[i])]

optimize_function(f) ==
    remove_nops(dead_code_elimination(copy_propagation(
        constant_propagation(constant_folding(f)))))

\* "for func in program.functions: self.optimize_function(func)", from function i
\* on; self.changed is shared by the functions of the program
RECURSIVE OptimizeFunctions(_, _, _)
OptimizeFunctions(functions, i, changed) ==
    IF i > Len(functions) THEN [functions |-> functions, changed |-> changed]
    ELSE LET f == optimize_function([instructions |-> functions[i].instructions,
                                     changed |-> changed])
         IN  OptimizeFunctions([functions EXCEPT ![i].instructions = f.instructions],
                               i + 1, f.changed)

\* IROptimizer.optimize: at most "passes" rounds, stopping after a round that
\* changed nothing
RECURSIVE optimize(_, _)
optimize(functions, passes) ==
    IF passes = 0 THEN functions
    ELSE LET round == OptimizeFunctions(functions, 1, FALSE)
         IN  IF ~round.changed THEN round.functions
             ELSE optimize(round.functions, passes - 1)

(***************************************************************************)
(* PeepholeOptimizer and optimize_ir (ir_optimizer.py).                    *)
(***************************************************************************)
remove_redundant_loads_stores(instructions) ==
    LET RECURSIVE Loop(_, _)
        Loop(i, instrs) ==
            IF i >= Len(instrs) THEN instrs
            ELSE LET instr1 == instrs[i]
                     instr2 == instrs[i + 1]
                 IN  IF /\ instr1.opcode = "ASSIGN"
                        /\ instr2.opcode = "ASSIGN"
                        /\ instr2.arg1 = instr1.result
                     THEN Loop(i + 1, [instrs EXCEPT ![i + 1].arg1 = instr1.arg1])
                     ELSE Loop(i + 1, instrs)
    IN  Loop(1, instructions)

\* returns [instructions, exc]: "0 + y" calls IRConstant with three arguments
\* (TypeError) and "y * 1" assigns to function.instruction (AttributeError)
simplify_arithmetic(instructions) ==
    LET IsConst(x, v) == x.k = "const" /\ x.v = v
        RECURSIVE Loop(_, _)
        Loop(i, instrs) ==
            IF i > Len(instrs) THEN [instructions |-> instrs, exc |-> "none"]
            ELSE
            LET instr == instrs[i]
                Assign(x) == [instrs EXCEPT
                                ![i] = IRInstruction("ASSIGN", instr.result, x, None, None)]
            IN  CASE instr.opcode = "ADD" /\ IsConst(instr.arg2, 0) ->
                         Loop(i + 1, Assign(instr.arg1))
                  [] instr.opcode = "ADD" /\ ~IsConst(instr.arg2, 0)
                                          /\ IsConst(instr.arg1, 0) ->
                         [instructions |-> instrs, exc |-> "TypeError"]
                  [] instr.opcode = "MUL" /\ (IsConst(instr.arg2, 0)
                                              \/ IsConst(instr.arg1, 0)) ->
                         Loop(i + 1, Assign(IRConstant(0)))
                  [] instr.opcode = "MUL" /\ ~IsConst(instr.arg1, 0)
                                          /\ IsConst(instr.arg2, 1) ->
                         [instructions |-> instrs, exc |-> "AttributeError"]
                  [] instr.opcode = "MUL" /\ ~IsConst(instr.arg2, 0)
                                          /\ ~IsConst(instr.arg2, 1)
                                          /\ IsConst(instr.arg1, 1) ->
                         Loop(i + 1, Assign(instr.arg2))
                  [] OTHER -> Loop(i + 1, instrs)
    IN  Loop(1, instructions)

\* PeepholeOptimizer.optimize
peephole_optimize(instructions) ==
    simplify_arithmetic(remove_redundant_loads_stores(instructions))

\* "for func in program.functions: peephole.optimize(func)", from function i on
RECURSIVE PeepholeFunctions(_, _)
PeepholeFunctions(functions, i) ==
    IF i > Len(functions) THEN [functions |-> functions, exc |-> "none"]
    ELSE LET f == peephole_optimize(functions[i].instructions)
             new == [functions EXCEPT ![i].instructions = f.instructions]
         IN  IF f.exc # "none" THEN [functions |-> new, exc |-> f.exc]
             ELSE PeepholeFunctions(new, i + 1)

\* optimize_ir(program, level); the program is the list of its functions, changed
\* in place, and exc is the exception that leaves the call, if any
optimize_ir(functions, level) ==
    IF level = 0 THEN [functions |-> functions, exc |-> "none"]
    ELSE LET program == optimize(functions, level)
         IN  IF level >= 2 THEN PeepholeFunctions(program, 1)
             ELSE [functions |-> program, exc |-> "none"]

\* IRGenerator.generate of a new generator: the generator after the declarations
generate(declarations) == IRGen_accept_all(declarations, 1, NewGenerator).g


(***************************************************************************)
(* SymbolTable (symbol_table.py) and TypeChecker (type_checker.py), as     *)
(* fields of the analyzer state a.  The scopes from the global scope to    *)
(* current_scope are the sequence a.scopes; a scope that was exited is no  *)
(* longer reachable from current_scope and is not kept.  An exception in   *)
(* flight is a.exc, with msg the text str(e) gives.  The types of the      *)
(* inputs are PrimitiveType nodes: the branches of the type rules for      *)
(* pointer, reference, array and class types are not modelled.             *)
(***************************************************************************)
NoException == [cls |-> "none", msg |-> ""]
Throw(a, cls, msg) == [a EXCEPT !.exc = [cls |-> cls, msg |-> msg]]
Thrown(a) == a.exc.cls # "none"
RA(a, val) == [a |-> a, val |-> val]

Scope(name) == [name |-> name, symbols |-> <<>>]
Symbol(name, kind, symbol_type, scope_level) ==
    [name |-> name, kind |-> kind, symbol_type |-> symbol_type,
     scope_level |-> scope_level]
FunctionSignature(return_type, parameter_types) ==
    [return_type |-> return_type, parameter_types |-> parameter_types]

\* SemanticAnalyzer.__init__, with SymbolTable.__init__ and TypeChecker.__init__
NewAnalyzer ==
    [scopes |-> <<Scope("global")>>, scope_level |-> 0, current_namespace |-> <<>>,
     function_overloads |-> <<>>, current_function_return_type |-> NoNode,
     errors |-> <<>>, in_loop |-> FALSE, in_switch |-> FALSE, exc |-> NoException]

current_scope(a) == a.scopes[Len(a.scopes)]

enter_scope(a, name) ==
    [a EXCEPT !.scopes = Append(@, Scope(name)), !.scope_level = @ + 1]

exit_scope(a) ==
    IF Len(a.scopes) = 1 THEN Throw(a, "Exception", "Cannot exit global scope")
    ELSE [a EXCEPT !.scopes = SubSeq(@, 1, Len(@) - 1), !.scope_level = @ - 1]

define(a, name, kind, symbol_type) ==
    IF name \in DOMAIN current_scope(a).symbols
    THEN Throw(a, "Exception", "Redifinition of '" \o name \o "' in scope '"
                               \o current_scope(a).name \o "'")
    ELSE [a EXCEPT !.scopes[Len(a.scopes)].symbols =
                       DictSet(@, name, Symbol(name, kind, symbol_type, a.scope_level))]

\* "::".join(self.current_namespace + [name])
RECURSIVE Join(_, _)
Join(parts, i) ==
    IF i = Len(parts) THEN parts[i] ELSE parts[i] \o "::" \o Join(parts, i + 1)
get_qualified_name(a, name) == Join(Append(a.current_namespace, name), 1)

define_function(a, name, return_type, parameter_types) ==
    LET signature == FunctionSignature(return_type, parameter_types)
        qualified_name == get_qualified_name(a, name)
        overloads == IF qualified_name \in DOMAIN a.function_overloads
                     THEN a.function_overloads[qualified_name] ELSE <<>>
        a1 == [a EXCEPT !.function_overloads =
                            DictSet(@, qualified_name, Append(overloads, signature))]
    IN  define(a1, name, "FUNCTION", return_type)

\* Scope.lookup from current_scope through the parents: <<symbol>>, or <<>> for None
RECURSIVE LookupFrom(_, _, _)
LookupFrom(a, name, i) ==
    IF i = 0 THEN <<>>
    ELSE IF name \in DOMAIN a.scopes[i].symbols THEN <<a.scopes[i].symbols[name]>>
    ELSE LookupFrom(a, name, i - 1)
lookup(a, name) == LookupFrom(a, name, Len(a.scopes))

enter_namespace(a, name) ==
    enter_scope([a EXCEPT !.current_namespace = Append(@, name)], "namespace::" \o name)
exit_namespace(a) ==
    exit_scope([a EXCEPT !.current_namespace =
                             IF @ # <<>> THEN SubSeq(@, 1, Len(@) - 1) ELSE @])
enter_function(a, name) == enter_scope(a, "function::" \o name)
exit_function(a) == exit_scope(a)

types_equal(type1, type2) ==
    /\ type1.kind = type2.kind
    /\ type1.kind = "PrimitiveType"
    /\ type1.name = type2.name
    /\ type1.is_signed = type2.is_signed

NumericTypes == {"int", "float", "double", "char", "short", "long", "long long"}
check_numeric_conversion(source, target) ==
    source.name \in NumericTypes /\ target.name \in NumericTypes

check_type_compatibility(source, target) ==
    \/ types_equal(source, target)
    \/ /\ source.kind = "PrimitiveType" /\ target.kind = "PrimitiveType"
       /\ check_numeric_conversion(source, target)

TypeWidth ==
    ("bool" :> 0) @@ ("char" :> 1) @@ ("short" :> 2) @@ ("int" :> 3) @@ ("long" :> 4) @@
    ("long long" :> 5) @@ ("float" :> 6) @@ ("double" :> 7)
get_wider_type(type1, type2) ==
    LET Width(t) == IF t.name \in DOMAIN TypeWidth THEN TypeWidth[t.name] ELSE 3
    IN  IF Width(type1) >= Width(type2) THEN type1 ELSE type2

is_integral_type(type_node) ==
    /\ type_node.kind = "PrimitiveType"
    /\ type_node.name \in {"int", "char", "short", "long", "long long", "bool"}

\* the type rules return [err, val]: err is the message of the TypeCheckError
\* raised, "" if none is, and val the type returned
Ok(val) == [err |-> "", val |-> val]
TypeCheckError(message) == [err |-> "Type error: " \o message, val |-> NoNode]

get_binary_operation_type(left, operator, right) ==
    CASE operator \in {"==", "!=", "<", ">", "<=", ">=", "<=>"} ->
             IF ~check_type_compatibility(left, right)
                /\ ~check_type_compatibility(right, left)
             THEN TypeCheckError("Cannot compare incompatible types in '" \o operator
                                 \o "' operation")
             ELSE Ok(PrimitiveType("bool", TRUE))
      \* every primitive type is boolean compatible
      [] operator \in {"&&", "||"} ->
             IF left.kind # "PrimitiveType" \/ right.kind # "PrimitiveType"
             THEN TypeCheckError("Logical operator '" \o operator
                                 \o "' requires boolean operands")
             ELSE Ok(PrimitiveType("bool", TRUE))
      [] operator \in {"+", "-", "*", "/", "%"} ->
             IF left.kind # "PrimitiveType" \/ right.kind # "PrimitiveType"
             THEN TypeCheckError("Arithmetic operator '" \o operator
                                 \o "' requires numeric operands")
             ELSE Ok(get_wider_type(left, right))
      [] operator \in {"&", "|", "^", "<<", ">>"} ->
             IF ~is_integral_type(left) \/ ~is_integral_type(right)
             THEN TypeCheckError("Bitwise operator '" \o operator
                                 \o "' requires integral operands")
             ELSE Ok(get_wider_type(left, right))
      [] OTHER -> TypeCheckError("Unknown binary operator: " \o operator)

get_unary_operation_type(operator, operand) ==
    CASE operator = "!" ->
             IF operand.kind # "PrimitiveType"
             THEN TypeCheckError("Logical NOT requires boolean operand")
             ELSE Ok(PrimitiveType("bool", TRUE))
      [] operator = "~" ->
             IF ~is_integral_type(operand)
             THEN TypeCheckError("Bitwise NOT requires integral operand")
             ELSE Ok(operand)
      [] operator \in {"+", "-"} ->
             IF operand.kind # "PrimitiveType"
             THEN TypeCheckError("Unary '" \o operator \o "' requires numeric operand")
             ELSE Ok(operand)
      [] operator \in {"++", "--"} ->
             IF operand.kind # "PrimitiveType"
             THEN TypeCheckError("'" \o operator
                                 \o "' requires numeric or pointer operand")
             ELSE Ok(operand)
      [] operator = "*" -> TypeCheckError("Dereference requires pointer type")
      [] operator = "&" -> Ok([kind |-> "PointerType", base_type |-> operand])
      [] OTHER -> TypeCheckError("Unknown unary operator: " \o operator)

\* return_type is NoNode for "return;"
check_return_type(a, return_type) ==
    LET declared == a.current_function_return_type IN
    IF declared = NoNode THEN TypeCheckError("Return statement outside of function")
    ELSE IF declared.kind = "PrimitiveType" /\ declared.name = "void"
    THEN (IF return_type # NoNode
          THEN TypeCheckError("Void function cannot return a value")
          ELSE Ok(NoNode))
    ELSE IF return_type = NoNode
    THEN TypeCheckError("Non-void function must return a value")
    ELSE IF ~check_type_compatibility(return_type, declared)
    THEN TypeCheckError("Return type incompatible with function return type")
    ELSE Ok(NoNode)

\* only the literal nodes have a type inferred
infer_type(expr) ==
    CASE expr.kind = "IntegerLiteral" -> Ok(PrimitiveType("int", TRUE))
      [] OTHER -> TypeCheckError("Type inference not fully implemented for this expression")

(***************************************************************************)
(* SemanticAnalyzer (analyzer.py).  A visitor takes the node and the       *)
(* analyzer a and returns RA(a, val): the analyzer after the visit and the *)
(* value returned, NoNode for None.  A visitor without an except clause    *)
(* returns as soon as a call has raised, leaving undone what follows the   *)
(* call in the source.                                                     *)
(***************************************************************************)
SA_error(a, message) == [a EXCEPT !.errors = Append(@, "Semantic error: " \o message)]

\* except Exception as e: self.error(f"{prefix}{e}")
Caught(a, prefix) == SA_error([a EXCEPT !.exc = NoException], prefix \o a.exc.msg)

type_to_string(type_node) ==
    IF type_node.kind = "PrimitiveType"
    THEN (IF ~type_node.is_signed /\ type_node.name \in {"int", "char"}
          THEN "unsigned " ELSE "") \o type_node.name
    ELSE "unknown"

\* the visitors SemanticAnalyzer does not define, by the class whose accept calls them
MissingVisitor ==
    ("AssignmentExpression" :> "visit_assignment_expression") @@
    ("TernaryExpression" :> "visit_ternary_expression") @@
    ("MemberInitializer" :> "visit_member_initializer")

RECURSIVE SA_accept(_, _), SA_accept_all(_, _, _)

SA_visit_variable_declaration(node, a) ==
    LET a1 == define(a, node.name, "VARIABLE", node.var_type)
        init_type == infer_type(node.initializer)
    IN  IF Thrown(a1) THEN Caught(a1, "Variable declaration error: ")
        ELSE IF node.initializer = NoNode THEN a1
        ELSE IF init_type.err # ""
        THEN SA_error(a1, "Variable declaration error: " \o init_type.err)
        ELSE IF ~check_type_compatibility(init_type.val, node.var_type)
        THEN SA_error(a1, "Cannot initialize variable '" \o node.name \o "' of type "
                          \o type_to_string(node.var_type) \o " with value of type "
                          \o type_to_string(init_type.val))
        ELSE a1

SA_visit_parameter(node, a) ==
    LET a1 == define(a, node.name, "PARAMETER", node.param_type)
    IN  IF Thrown(a1) THEN Caught(a1, "Parameter error: ") ELSE a1

\* [param.param_type for param in node.parameters]
ParamTypes(parameters) == [i \in 1..Len(parameters) |-> parameters[i].param_type]

RECURSIVE SA_visit_parameters(_, _, _)
SA_visit_parameters(parameters, i, a) ==
    IF i > Len(parameters) THEN a
    ELSE SA_visit_parameters(parameters, i + 1, SA_visit_parameter(parameters[i], a))

SA_visit_function_declaration(node, a) ==
    LET a1 == define_function(a, node.name, node.return_type, ParamTypes(node.parameters))
        a2 == enter_function(a1, node.name)
        old_return_type == a2.current_function_return_type
        a3 == [a2 EXCEPT !.current_function_return_type = node.return_type]
        a4 == SA_visit_parameters(node.parameters, 1, a3)
        a5 == SA_accept(node.body, a4).a
        a6 == exit_function([a5 EXCEPT !.current_function_return_type = old_return_type])
    IN  IF Thrown(a1) THEN Caught(a1, "Function declaration error: ")
        ELSE IF node.body = NoNode THEN a1
        ELSE IF Thrown(a5) THEN Caught(a5, "Function declaration error: ")
        ELSE IF Thrown(a6) THEN Caught(a6, "Function declaration error: ")
        ELSE a6

SA_visit_constructor_declaration(node, a) ==
    LET a1 == enter_function(a, node.class_name \o "::constructor")
        a2 == SA_visit_parameters(node.parameters, 1, a1)
        a3 == SA_accept_all(node.initializer_list, 1, a2)
        a4 == IF node.body # NoNode THEN SA_accept(node.body, a3).a ELSE a3
        a5 == exit_function(a4)
    IN  IF Thrown(a3) THEN Caught(a3, "Constructor error: ")
        ELSE IF Thrown(a4) THEN Caught(a4, "Constructor error: ")
        ELSE IF Thrown(a5) THEN Caught(a5, "Constructor error: ")
        ELSE a5

SA_visit_destructor_declaration(node, a) ==
    LET a1 == enter_function(a, node.class_name \o "::destructor")
        a2 == IF node.body # NoNode THEN SA_accept(node.body, a1).a ELSE a1
        a3 == exit_function(a2)
    IN  IF Thrown(a2) THEN Caught(a2, "Destructor error: ")
        ELSE IF Thrown(a3) THEN Caught(a3, "Destructor error: ")
        ELSE a3

SA_visit_namespace_declaration(node, a) ==
    LET a1 == enter_namespace(a, node.name)
        a2 == SA_accept_all(node.declarations, 1, a1)
        a3 == exit_namespace(a2)
    IN  IF Thrown(a2) THEN Caught(a2, "Namespace error: ")
        ELSE IF Thrown(a3) THEN Caught(a3, "Namespace error: ")
        ELSE a3

SA_visit_compound_statement(node, a) ==
    LET a1 == enter_scope(a, "block")
        a2 == SA_accept_all(node.statements, 1, a1)
    IN  IF Thrown(a2) THEN a2 ELSE exit_scope(a2)

SA_visit_return_statement(node, a) ==
    LET return_type == infer_type(node.value)
        checked == IF node.value # NoNode
                   THEN (IF return_type.err # "" THEN return_type
                         ELSE check_return_type(a, return_type.val))
                   ELSE check_return_type(a, NoNode)
    IN  IF checked.err # "" THEN SA_error(a, checked.err) ELSE a

SA_visit_if_statement(node, a) ==
    LET a1 == SA_accept(node.condition, a).a
        a2 == SA_accept(node.then_statement, a1).a
    IN  IF Thrown(a1) THEN a1
        ELSE IF Thrown(a2) \/ node.else_statement = NoNode THEN a2
        ELSE SA_accept(node.else_statement, a2).a

SA_visit_while_statement(node, a) ==
    LET old_in_loop == a.in_loop
        a1 == SA_accept(node.condition, [a EXCEPT !.in_loop = TRUE]).a
        a2 == SA_accept(node.body, a1).a
    IN  IF Thrown(a1) THEN a1
        ELSE IF Thrown(a2) THEN a2
        ELSE [a2 EXCEPT !.in_loop = old_in_loop]

SA_visit_do_while_statement(node, a) ==
    LET old_in_loop == a.in_loop
        a1 == SA_accept(node.body, [a EXCEPT !.in_loop = TRUE]).a
        a2 == SA_accept(node.condition, a1).a
    IN  IF Thrown(a1) THEN a1
        ELSE IF Thrown(a2) THEN a2
        ELSE [a2 EXCEPT !.in_loop = old_in_loop]

SA_visit_for_statement(node, a) ==
    LET old_in_loop == a.in_loop
        a1 == enter_scope([a EXCEPT !.in_loop = TRUE], "for")
        a2 == IF node.init # NoNode THEN SA_accept(node.init, a1).a ELSE a1
        a3 == IF node.condition # NoNode THEN SA_accept(node.condition, a2).a ELSE a2
        a4 == IF node.increment # NoNode THEN SA_accept(node.increment, a3).a ELSE a3
        a5 == SA_accept(node.body, a4).a
        a6 == exit_scope(a5)
    IN  IF Thrown(a2) THEN a2
        ELSE IF Thrown(a3) THEN a3
        ELSE IF Thrown(a4) THEN a4
        ELSE IF Thrown(a5) THEN a5
        ELSE IF Thrown(a6) THEN a6
        ELSE [a6 EXCEPT !.in_loop = old_in_loop]

SA_visit_break_statement(node, a) ==
    IF ~a.in_loop /\ ~a.in_switch
    THEN SA_error(a, "'break' statement not in loop or switch") ELSE a

SA_visit_continue_statement(node, a) ==
    IF ~a.in_loop THEN SA_error(a, "'continue' statement not in loop") ELSE a

SA_visit_switch_statement(node, a) ==
    LET old_in_switch == a.in_switch
        a1 == SA_accept(node.condition, [a EXCEPT !.in_switch = TRUE]).a
        a2 == SA_accept_all(node.cases, 1, a1)
    IN  IF Thrown(a1) THEN a1
        ELSE IF Thrown(a2) THEN a2
        ELSE [a2 EXCEPT !.in_switch = old_in_switch]

SA_visit_case_statement(node, a) ==
    LET a1 == IF node.value # NoNode THEN SA_accept(node.value, a).a ELSE a
    IN  IF Thrown(a1) THEN a1 ELSE SA_accept_all(node.statements, 1, a1)

SA_visit_identifier(node, a) ==
    LET symbol == lookup(a, node.name)
    IN  IF symbol = <<>>
        THEN RA(SA_error(a, "Undefined identifier: '" \o node.name \o "'"),
                PrimitiveType("int", TRUE))
        ELSE RA(a, symbol[1].symbol_type)

SA_visit_binary_expression(node, a) ==
    LET left == SA_accept(node.left, a)
        right == SA_accept(node.right, left.a)
        result_type == get_binary_operation_type(left.val, node.operator, right.val)
    IN  IF Thrown(left.a) THEN left
        ELSE IF Thrown(right.a) THEN right
        ELSE IF result_type.err # ""
        THEN RA(SA_error(right.a, result_type.err), PrimitiveType("int", TRUE))
        ELSE RA(right.a, result_type.val)

SA_visit_unary_expression(node, a) ==
    LET operand == SA_accept(node.operand, a)
        result_type == get_unary_operation_type(node.operator, operand.val)
    IN  IF Thrown(operand.a) THEN operand
        ELSE IF result_type.err # ""
        THEN RA(SA_error(operand.a, result_type.err), PrimitiveType("int", TRUE))
        ELSE RA(operand.a, result_type.val)

SA_accept(node, a) ==
    CASE node.kind = "VariableDeclaration" -> RA(SA_visit_variable_declaration(node, a), NoNode)
      [] node.kind = "FunctionDeclaration" -> RA(SA_visit_function_declaration(node, a), NoNode)
      [] node.kind = "ConstructorDeclaration" ->
             RA(SA_visit_constructor_declaration(node, a), NoNode)
      [] node.kind = "DestructorDeclaration" ->
             RA(SA_visit_destructor_declaration(node, a), NoNode)
      [] node.kind = "NamespaceDeclaration" ->
             RA(SA_visit_namespace_declaration(node, a), NoNode)
      [] node.kind = "CompoundStatement" -> RA(SA_visit_compound_statement(node, a), NoNode)
      [] node.kind = "ExpressionStatement" -> RA(SA_accept(node.expression, a).a, NoNode)
      [] node.kind = "ReturnStatement" -> RA(SA_visit_return_statement(node, a), NoNode)
      [] node.kind = "IfStatement" -> RA(SA_visit_if_statement(node, a), NoNode)
      [] node.kind = "WhileStatement" -> RA(SA_visit_while_statement(node, a), NoNode)
      [] node.kind = "DoWhileStatement" -> RA(SA_visit_do_while_statement(node, a), NoNode)
      [] node.kind = "ForStatement" -> RA(SA_visit_for_statement(node, a), NoNode)
      [] node.kind = "BreakStatement" -> RA(SA_visit_break_statement(node, a), NoNode)
      [] node.kind = "ContinueStatement" -> RA(SA_visit_continue_statement(node, a), NoNode)
      [] node.kind = "SwitchStatement" -> RA(SA_visit_switch_statement(node, a), NoNode)
      [] node.kind = "CaseStatement" -> RA(SA_visit_case_statement(node, a), NoNode)
      [] node.kind = "Identifier" -> SA_visit_identifier(node, a)
      [] node.kind = "BinaryExpression" -> SA_visit_binary_expression(node, a)
      [] node.kind = "UnaryExpression" -> SA_visit_unary_expression(node, a)
      [] node.kind = "IntegerLiteral" -> RA(a, PrimitiveType("int", TRUE))
      [] OTHER -> RA(Throw(a, "AttributeError",
                           "'SemanticAnalyzer' object has no attribute '"
                           \o MissingVisitor[node.kind] \o "'"), NoNode)

\* for x in nodes: x.accept(self)
SA_accept_all(nodes, i, a) ==
    IF i > Len(nodes) \/ Thrown(a) THEN a
    ELSE SA_accept_all(nodes, i + 1, SA_accept(nodes[i], a).a)

\* analyze with visit_program; only SemanticError is caught, and no visitor raises it
analyze(declarations) ==
    LET a == SA_accept_all(declarations, 1, NewAnalyzer)
    IN  IF Thrown(a) THEN RA(a, "raised")
        ELSE RA(a, IF Len(a.errors) = 0 THEN "True" ELSE "False")

(***************************************************************************)
(* Parser (parser.py) over the token list the lexer produced.  A token is  *)
(* its type (the name of the TokenType member) and its value; line and     *)
(* column are left out, and a ParserError carries its message only.  The   *)
(* parser is p = [tokens, position, exc]; a parsing method returns         *)
(* RP(p, val), val being the node built (any value once p.exc is set).     *)
(* Modelled are the declarations and statements below and the expressions  *)
(* built from integers, identifiers, parentheses and operators;            *)
(* the sources parsed contain no token that selects another branch.        *)
(***************************************************************************)
Token(type, value) == [type |-> type, value |-> value]
NewParser(tokens) == [tokens |-> tokens, position |-> 0, exc |-> NoException]
RP(p, val) == [p |-> p, val |-> val]

\* advance leaves current_token at the last token once position has passed it
current_token(p) ==
    p.tokens[IF p.position < Len(p.tokens) THEN p.position + 1 ELSE Len(p.tokens)]
advance(p) == [p EXCEPT !.position = @ + 1]
match(p, token_types) == current_token(p).type \in token_types
expect(p, token_type) ==
    IF p.exc # NoException THEN p
    ELSE IF current_token(p).type # token_type
    THEN Throw(p, "ParserError", "Expected " \o token_type \o ", got " \o current_token(p).type)
    ELSE advance(p)
match_and_consume(p, token_type) == IF match(p, {token_type}) THEN advance(p) ELSE p

RECURSIVE ConsumeEach(_, _, _)
ConsumeEach(p, token_types, i) ==
    IF i > Len(token_types) THEN p
    ELSE ConsumeEach(match_and_consume(p, token_types[i]), token_types, i + 1)

\* int(value, 0) of a decimal literal
ParseInt(value) == CHOOSE n \in 0..99 : IntStr(n) = value

TypeTokens == {"INT", "CHAR", "FLOAT", "DOUBLE", "VOID", "BOOL", "SHORT", "LONG"}

parse_type(p) ==
    LET p1 == ConsumeEach(p, <<"CONST", "VOLATILE">>, 1)
        is_signed == ~match(p1, {"UNSIGNED"})
        p2 == IF match(p1, {"UNSIGNED", "SIGNED"}) THEN advance(p1) ELSE p1
        type_name == current_token(p2).value
        p3 == advance(p2)
        RECURSIVE Suffix(_, _)
        Suffix(q, base_type) ==
            IF match(q, {"MULTIPLY"})
            THEN Suffix(match_and_consume(advance(q), "CONST"),
                        [kind |-> "PointerType", base_type |-> base_type])
            ELSE IF match(q, {"BITWISE_AND"})
            THEN Suffix(advance(q), [kind |-> "ReferenceType", base_type |-> base_type])
            ELSE RP(q, base_type)
    IN  IF match(p2, TypeTokens)
        THEN (IF type_name = "long" /\ match(p3, {"LONG"})
              THEN Suffix(advance(p3), PrimitiveType("long long", is_signed))
              ELSE Suffix(p3, PrimitiveType(type_name, is_signed)))
        ELSE IF match(p2, {"AUTO"}) THEN Suffix(p3, PrimitiveType("auto", TRUE))
        ELSE IF match(p2, {"IDENTIFIER"})
        THEN Suffix(p3, [kind |-> "UserDefinedType", name |-> type_name])
        ELSE RP(Throw(p2, "ParserError", "Expected type, got " \o current_token(p2).type),
                NoNode)

is_type_start(p) ==
    match(p, {"INT", "FLOAT", "DOUBLE", "CHAR", "BOOL", "VOID", "SHORT", "LONG",
              "SIGNED", "UNSIGNED", "CONST", "VOLATILE", "AUTO"})

\* the operator token types of parse_logical_or down to parse_multiplicative
BinaryLevels ==
    << {"LOGICAL_OR"}, {"LOGICAL_AND"}, {"BITWISE_OR"}, {"BITWISE_XOR"}, {"BITWISE_AND"},
       {"EQUAL", "NOT_EQUAL"},
       {"LESS_THAN", "GREATER_THAN", "LESS_EQUAL", "GREATER_EQUAL", "SPACESHIP"},
       {"LEFT_SHIFT", "RIGHT_SHIFT"}, {"PLUS", "MINUS"},
       {"MULTIPLY", "DIVIDE", "MODULO"} >>

RECURSIVE parse_assignment(_), parse_ternary(_), parse_binary(_, _), parse_unary(_),
          parse_postfix(_), parse_primary(_),
          parse_statement(_), parse_statements(_, _, _), parse_function_or_variable(_)

parse_expression(p) == parse_assignment(p)

parse_primary(p) ==
    LET Close(expr) ==
            IF expr.p.exc # NoException THEN expr
            ELSE RP(expect(expr.p, "RPAREN"), expr.val)
    IN  IF match(p, {"INTEGER"})
        THEN RP(advance(p), IntegerLiteral(ParseInt(current_token(p).value)))
        ELSE IF match(p, {"IDENTIFIER"})
        THEN RP(advance(p), Identifier(current_token(p).value))
        ELSE IF match(p, {"LPAREN"}) THEN Close(parse_expression(advance(p)))
        ELSE RP(Throw(p, "ParserError",
                      "Unexpected token in expression: " \o current_token(p).type), NoNode)

RECURSIVE PostfixLoop(_)
PostfixLoop(expr) ==
    IF expr.p.exc # NoException THEN expr
    ELSE IF match(expr.p, {"INCREMENT", "DECREMENT"})
    THEN PostfixLoop(RP(advance(expr.p),
                        UnaryExpression(current_token(expr.p).value, expr.val, TRUE)))
    ELSE expr

parse_postfix(p) == PostfixLoop(parse_primary(p))

parse_unary(p) ==
    IF match(p, {"INCREMENT", "DECREMENT", "PLUS", "MINUS", "LOGICAL_NOT", "BITWISE_NOT"})
    THEN LET Prefix(operand) ==
                 IF operand.p.exc # NoException THEN operand
                 ELSE RP(operand.p,
                         UnaryExpression(current_token(p).value, operand.val, FALSE))
         IN  Prefix(parse_unary(advance(p)))
    ELSE parse_postfix(p)

\* parse_logical_or (level 1) to parse_multiplicative (level 10): the operand of
\* the next level, then the loop; the operands of the last level are parse_unary's
RECURSIVE BinaryLoop(_, _)
parse_binary(level, p) ==
    IF level > Len(BinaryLevels) THEN parse_unary(p)
    ELSE BinaryLoop(level, parse_binary(level + 1, p))

\* while an operator of the level is the current token, the operand that follows
\* is joined to the expression on its left
BinaryLoop(level, left) ==
    IF left.p.exc # NoException THEN left
    ELSE IF ~match(left.p, BinaryLevels[level]) THEN left
    ELSE LET Joined(right) ==
                 IF right.p.exc # NoException THEN right
                 ELSE BinaryLoop(level, RP(right.p,
                                           BinaryExpression(left.val,
                                                            current_token(left.p).value,
                                                            right.val)))
         IN  Joined(parse_binary(level + 1, advance(left.p)))

parse_ternary(p) ==
    LET Conditional(expr) ==
            IF expr.p.exc # NoException THEN expr
            ELSE IF ~match(expr.p, {"QUESTION"}) THEN expr
            ELSE LET Branches(true_expr) ==
                         LET p1 == expect(true_expr.p, "COLON")
                             Build(false_expr) ==
                                 IF false_expr.p.exc # NoException THEN false_expr
                                 ELSE RP(false_expr.p,
                                         TernaryExpression(expr.val, true_expr.val,
                                                           false_expr.val))
                         IN  IF p1.exc # NoException THEN RP(p1, NoNode)
                             ELSE Build(parse_ternary(p1))
                 IN  Branches(parse_expression(advance(expr.p)))
    IN  Conditional(parse_binary(1, p))

\* an assignment whose right side is one ternary expression, instead of an
\* assignment expression
parse_assignment_flat(p) ==
    LET Assignment(expr) ==
            IF expr.p.exc # NoException THEN expr
            ELSE IF ~match(expr.p, {"ASSIGN", "PLUS_ASSIGN", "MINUS_ASSIGN",
                                    "MULTIPLY_ASSIGN", "DIVIDE_ASSIGN", "MODULO_ASSIGN"})
            THEN expr
            ELSE LET Build(value) ==
                         IF value.p.exc # NoException THEN value
                         ELSE RP(value.p,
                                 AssignmentExpression(expr.val, current_token(expr.p).value,
                                                      value.val))
                 IN  Build(parse_ternary(advance(expr.p)))
    IN  Assignment(parse_ternary(p))

parse_assignment(p) ==
    LET Assignment(expr) ==
            IF expr.p.exc # NoException THEN expr
            ELSE IF ~match(expr.p, {"ASSIGN", "PLUS_ASSIGN", "MINUS_ASSIGN",
                                    "MULTIPLY_ASSIGN", "DIVIDE_ASSIGN", "MODULO_ASSIGN"})
            THEN expr
            ELSE LET Build(value) ==
                         IF value.p.exc # NoException THEN value
                         ELSE RP(value.p,
                                 AssignmentExpression(expr.val, current_token(expr.p).value,
                                                      value.val))
                 IN  Build(parse_assignment(advance(expr.p)))
    IN  Assignment(parse_ternary(p))

\* while not self.match(*stop) [and not EOF]: statements.append(self.parse_statement())
parse_statements(p, stop, statements) ==
    LET WithStatement(statement) ==
            IF statement.p.exc # NoException THEN statement
            ELSE parse_statements(statement.p, stop, Append(statements, statement.val))
    IN  IF match(p, stop) THEN RP(p, statements) ELSE WithStatement(parse_statement(p))

parse_compound_statement(p) ==
    LET p1 == expect(p, "LBRACE")
        WithStatements(statements) ==
            IF statements.p.exc # NoException THEN statements
            ELSE RP(expect(statements.p, "RBRACE"), CompoundStatement(statements.val))
    IN  IF p1.exc # NoException THEN RP(p1, NoNode)
        ELSE WithStatements(parse_statements(p1, {"RBRACE", "EOF"}, <<>>))

parse_return_statement(p) ==
    LET p1 == expect(p, "RETURN")
        WithValue(value) ==
            IF value.p.exc # NoException THEN value
            ELSE RP(expect(value.p, "SEMICOLON"), ReturnStatement(value.val))
    IN  WithValue(IF ~match(p1, {"SEMICOLON"}) THEN parse_expression(p1) ELSE RP(p1, NoNode))

\* expect(keyword), expect(LPAREN), parse_expression(), expect(RPAREN)
Parenthesized(p, keyword) ==
    LET p1 == expect(expect(p, keyword), "LPAREN")
        WithCondition(condition) ==
            IF condition.p.exc # NoException THEN condition
            ELSE RP(expect(condition.p, "RPAREN"), condition.val)
    IN  IF p1.exc # NoException THEN RP(p1, NoNode) ELSE WithCondition(parse_expression(p1))

parse_if_statement(p) ==
    LET WithCondition(condition) ==
            LET WithThen(then_stmt) ==
                    LET WithElse(else_stmt) ==
                            RP(else_stmt.p, IfStatement(condition.val, then_stmt.val,
                                                        else_stmt.val))
                    IN  IF then_stmt.p.exc # NoException THEN then_stmt
                        ELSE WithElse(IF match(then_stmt.p, {"ELSE"})
                                      THEN parse_statement(advance(then_stmt.p))
                                      ELSE RP(then_stmt.p, NoNode))
            IN  IF condition.p.exc # NoException THEN condition
                ELSE WithThen(parse_statement(condition.p))
    IN  WithCondition(Parenthesized(p, "IF"))

parse_while_statement(p) ==
    LET WithCondition(condition) ==
            LET WithBody(body) == RP(body.p, WhileStatement(condition.val, body.val))
            IN  IF condition.p.exc # NoException THEN condition
                ELSE WithBody(parse_statement(condition.p))
    IN  WithCondition(Parenthesized(p, "WHILE"))

parse_do_while_statement(p) ==
    LET WithBody(body) ==
            LET WithCondition(condition) ==
                    IF condition.p.exc # NoException THEN condition
                    ELSE RP(expect(condition.p, "SEMICOLON"),
                            DoWhileStatement(body.val, condition.val))
            IN  IF body.p.exc # NoException THEN body
                ELSE WithCondition(Parenthesized(body.p, "WHILE"))
    IN  WithBody(parse_statement(expect(p, "DO")))

parse_for_statement(p) ==
    LET p1 == expect(expect(p, "FOR"), "LPAREN")
        WithInit(init) ==
            LET WithCondition(condition) ==
                    LET p2 == expect(condition.p, "SEMICOLON")
                        WithIncrement(increment) ==
                            LET p3 == expect(increment.p, "RPAREN")
                                WithBody(body) ==
                                    RP(body.p, ForStatement(init.val, condition.val,
                                                            increment.val, body.val))
                            IN  IF p3.exc # NoException THEN RP(p3, NoNode)
                                ELSE WithBody(parse_statement(p3))
                    IN  IF p2.exc # NoException THEN RP(p2, NoNode)
                        ELSE WithIncrement(IF ~match(p2, {"RPAREN"}) THEN parse_expression(p2)
                                           ELSE RP(p2, NoNode))
            IN  IF init.p.exc # NoException THEN init
                ELSE WithCondition(IF ~match(init.p, {"SEMICOLON"})
                                   THEN parse_expression(init.p)
                                   ELSE RP(init.p, NoNode))
    IN  IF p1.exc # NoException THEN RP(p1, NoNode)
        ELSE WithInit(IF ~match(p1, {"SEMICOLON"}) THEN parse_statement(p1)
                      ELSE RP(advance(p1), NoNode))

\* a clause is read at CASE or DEFAULT; at any other token but RBRACE the loop of
\* the source does not advance, and the sources parsed have no such switch
\* the outcome of a call whose loop iterates for ever: like an exception in
\* flight it ends what the callers would have done next, and no caller sees it
NeverReturns == "never returns"

parse_switch_statement(p) ==
    LET RECURSIVE Clauses(_, _)
        Clauses(q, cases) ==
            LET WithValue(value) ==
                    LET p2 == expect(value.p, "COLON")
                        WithStatements(statements) ==
                            IF statements.p.exc # NoException THEN statements
                            ELSE Clauses(statements.p,
                                         Append(cases, CaseStatement(value.val,
                                                                     statements.val)))
                    IN  IF value.p.exc # NoException THEN value
                        ELSE IF p2.exc # NoException THEN RP(p2, NoNode)
                        ELSE WithStatements(parse_statements(p2, {"CASE", "DEFAULT", "RBRACE"},
                                                             <<>>))
            \* at a token that is not CASE, DEFAULT or RBRACE the loop takes no
            \* branch and consumes nothing: it iterates for ever
            IN  IF match(q, {"RBRACE"}) THEN RP(q, cases)
                ELSE IF match(q, {"CASE"}) THEN WithValue(parse_expression(advance(q)))
                ELSE IF match(q, {"DEFAULT"}) THEN WithValue(RP(advance(q), NoNode))
                ELSE RP(Throw(q, NeverReturns, "parse_switch_statement"), cases)
        WithCondition(condition) ==
            LET p1 == expect(condition.p, "LBRACE")
                WithCases(cases) ==
                    IF cases.p.exc # NoException THEN cases
                    ELSE RP(expect(cases.p, "RBRACE"),
                            SwitchStatement(condition.val, cases.val))
            IN  IF condition.p.exc # NoException THEN condition
                ELSE IF p1.exc # NoException THEN RP(p1, NoNode)
                ELSE WithCases(Clauses(p1, <<>>))
    IN  WithCondition(Parenthesized(p, "SWITCH"))

parse_statement(p) ==
    LET WithExpr(expr) ==
            IF expr.p.exc # NoException THEN expr
            ELSE RP(expect(expr.p, "SEMICOLON"), ExpressionStatement(expr.val))
        \* the declaration parsed is dropped
        WithDecl(decl) == RP(decl.p, ExpressionStatement(Identifier("declaration")))
    IN  CASE match(p, {"LBRACE"}) -> parse_compound_statement(p)
          [] match(p, {"RETURN"}) -> parse_return_statement(p)
          [] match(p, {"IF"}) -> parse_if_statement(p)
          [] match(p, {"WHILE"}) -> parse_while_statement(p)
          [] match(p, {"DO"}) -> parse_do_while_statement(p)
          [] match(p, {"FOR"}) -> parse_for_statement(p)
          [] match(p, {"BREAK"}) -> RP(expect(advance(p), "SEMICOLON"), BreakStatement)
          [] match(p, {"CONTINUE"}) -> RP(expect(advance(p), "SEMICOLON"), ContinueStatement)
          [] match(p, {"SWITCH"}) -> parse_switch_statement(p)
          [] is_type_start(p) -> WithDecl(parse_function_or_variable(p))
          [] OTHER -> WithExpr(parse_expression(p))

RECURSIVE parse_parameter_list(_, _)
parse_parameter_list(p, params) ==
    LET WithType(param_type) ==
            LET named == match(param_type.p, {"IDENTIFIER"})
                param_name == IF named THEN current_token(param_type.p).value ELSE ""
                p1 == IF named THEN advance(param_type.p) ELSE param_type.p
                WithDefault(default_value) ==
                    LET p2 == default_value.p
                        params1 == Append(params, Parameter(param_type.val, param_name))
                    IN  IF p2.exc # NoException THEN default_value
                        ELSE IF match(p2, {"COMMA"})
                        THEN parse_parameter_list(advance(p2), params1)
                        ELSE RP(p2, params1)
            IN  IF param_type.p.exc # NoException THEN param_type
                ELSE WithDefault(IF match(p1, {"ASSIGN"}) THEN parse_expression(advance(p1))
                                 ELSE RP(p1, NoNode))
    IN  IF params = <<>> /\ match(p, {"RPAREN"}) THEN RP(p, params)
        ELSE WithType(parse_type(p))

parse_function_or_variable(p) ==
    LET p1 == ConsumeEach(p, <<"STATIC", "EXTERN", "INLINE", "VIRTUAL", "CONSTEXPR">>, 1)
        WithType(return_type) ==
            LET name == current_token(return_type.p).value
                p2 == advance(return_type.p)
                WithParams(params) ==
                    LET p3 == ConsumeEach(expect(params.p, "RPAREN"),
                                          <<"CONST", "OVERRIDE", "FINAL">>, 1)
                        WithBody(body) ==
                            RP(body.p, FunctionDeclaration(return_type.val, name, params.val,
                                                           body.val))
                    IN  IF params.p.exc # NoException THEN params
                        ELSE IF p3.exc # NoException THEN RP(p3, NoNode)
                        ELSE WithBody(IF match(p3, {"LBRACE"}) THEN parse_compound_statement(p3)
                                      ELSE RP(expect(p3, "SEMICOLON"), NoNode))
                WithInitializer(initializer) ==
                    IF initializer.p.exc # NoException THEN initializer
                    ELSE RP(expect(initializer.p, "SEMICOLON"),
                            VariableDeclaration(return_type.val, name, initializer.val))
            IN  IF return_type.p.exc # NoException \/ ~match(return_type.p, {"IDENTIFIER"})
                THEN RP(return_type.p, NoNode)
                ELSE IF match(p2, {"LPAREN"})
                THEN WithParams(parse_parameter_list(advance(p2), <<>>))
                ELSE WithInitializer(IF match(p2, {"ASSIGN"}) THEN parse_expression(advance(p2))
                                     ELSE RP(p2, NoNode))
    IN  WithType(parse_type(p1))

RECURSIVE parse_declaration(_)
parse_namespace(p) ==
    LET p1 == expect(p, "NAMESPACE")
        name == current_token(p1).value
        p2 == expect(expect(p1, "IDENTIFIER"), "LBRACE")
        RECURSIVE Loop(_, _)
        Loop(q, declarations) ==
            LET WithDecl(decl) ==
                    IF decl.p.exc # NoException THEN decl
                    ELSE Loop(decl.p, IF decl.val # NoNode THEN Append(declarations, decl.val)
                                      ELSE declarations)
            IN  IF match(q, {"RBRACE", "EOF"}) THEN RP(q, declarations)
                ELSE WithDecl(parse_declaration(q))
        WithDeclarations(declarations) ==
            IF declarations.p.exc # NoException THEN declarations
            ELSE RP(expect(declarations.p, "RBRACE"),
                    NamespaceDeclaration(name, declarations.val))
    IN  IF p2.exc # NoException THEN RP(p2, NoNode) ELSE WithDeclarations(Loop(p2, <<>>))

parse_declaration(p) ==
    IF match(p, {"NAMESPACE"}) THEN parse_namespace(p) ELSE parse_function_or_variable(p)

\* Parser(tokens).parse(): [declarations, exc], the declarations of the Program
parse(tokens) ==
    LET RECURSIVE Loop(_, _)
        Loop(p, declarations) ==
            LET WithDecl(decl) ==
                    IF decl.p.exc # NoException THEN [declarations |-> <<>>, exc |-> decl.p.exc]
                    ELSE Loop(decl.p, IF decl.val # NoNode THEN Append(declarations, decl.val)
                                      ELSE declarations)
            IN  IF current_token(p).type = "EOF"
                THEN [declarations |-> declarations, exc |-> NoException]
                ELSE IF current_token(p).type = "PREPROCESSOR"
                THEN Loop(advance(p), declarations)
                ELSE WithDecl(parse_declaration(p))
    IN  Loop(NewParser(tokens), <<>>)

(***************************************************************************)
(* The value a function of the IR returns: the instructions are run from   *)
(* the first one on an environment of the parameters, with C's integer     *)
(* arithmetic, for at most "fuel" instructions.                            *)
(***************************************************************************)
\* C's / and %: the quotient is rounded toward zero
TruncDiv(a, b) ==
    LET q == FloorDiv(IF a < 0 THEN -a ELSE a, IF b < 0 THEN -b ELSE b)
    IN  IF (a < 0) # (b < 0) THEN -q ELSE q

CBinaryOp(opcode, left, right) ==
    CASE opcode = "DIV" -> IF right = 0 THEN <<>> ELSE <<TruncDiv(left, right)>>
      [] opcode = "MOD" -> IF right = 0 THEN <<>>
                           ELSE <<left - right * TruncDiv(left, right)>>
      [] OTHER -> evaluate_binary_op(opcode, left, right)

\* the value of an operand: <<>> for a name that holds no value yet
ValueOf(x, env) ==
    CASE x.k = "const" -> <<x.v>>
      [] IsTempOrVar(x) /\ x.n \in DOMAIN env -> <<env[x.n]>>
      [] OTHER -> <<>>

\* the index of the LABEL instruction of a label, 0 if there is none
LabelIndex(instrs, label) ==
    LET at == {i \in 1..Len(instrs) : instrs[i].opcode = "LABEL" /\ instrs[i].label = label}
    IN  IF at = {} THEN 0 ELSE CHOOSE i \in at : \A j \in at : i <= j

RECURSIVE Exec(_, _, _, _)
Exec(instrs, pc, env, fuel) ==
    IF fuel = 0 THEN [r |-> "fuel"]
    ELSE IF pc < 1 \/ pc > Len(instrs) THEN [r |-> "end"]
    ELSE
    LET instr == instrs[pc]
        a == ValueOf(instr.arg1, env)
        b == ValueOf(instr.arg2, env)
        Jump == Exec(instrs, LabelIndex(instrs, instr.label), env, fuel - 1)
        Step == Exec(instrs, pc + 1, env, fuel - 1)
        Set(v) == IF v = <<>> \/ ~IsTempOrVar(instr.result) THEN [r |-> "undefined"]
                  ELSE Exec(instrs, pc + 1, DictSet(env, instr.result.n, v[1]), fuel - 1)
    IN  CASE instr.opcode = "RETURN" ->
                 IF instr.arg1 = None THEN [r |-> "return", v |-> <<>>]
                 ELSE IF a = <<>> THEN [r |-> "undefined"]
                 ELSE [r |-> "return", v |-> a]
          [] instr.opcode = "LABEL" -> Step
          [] instr.opcode = "GOTO" -> Jump
          [] instr.opcode \in {"IF_FALSE", "IF_TRUE"} ->
                 IF a = <<>> THEN [r |-> "undefined"]
                 ELSE IF (a[1] = 0) = (instr.opcode = "IF_FALSE") THEN Jump ELSE Step
          [] instr.opcode = "ASSIGN" -> Set(a)
          [] is_binary_arithmetic(instr) ->
                 Set(IF a = <<>> \/ b = <<>> THEN <<>>
                     ELSE CBinaryOp(instr.opcode, a[1], b[1]))
          [] instr.opcode = "NEG" -> Set(IF a = <<>> THEN <<>> ELSE <<-a[1]>>)
          [] instr.opcode = "LNOT" ->
                 Set(IF a = <<>> THEN <<>> ELSE <<IF a[1] = 0 THEN 1 ELSE 0>>)
          [] instr.opcode = "NOT" -> Set(IF a = <<>> THEN <<>> ELSE <<-a[1] - 1>>)
          [] OTHER -> [r |-> "undefined"]

\* the result of a call of the function with the arguments p and x
Run(instrs, p, x) == Exec(instrs, 1, ("p" :> p) @@ ("x" :> x), MaxSteps)


(***************************************************************************)
(* Inputs of the IR pipeline: functions "int f(int p, int x)" whose bodies *)
(* nest the control statements to depth MaxDepth, straight-line bodies of  *)
(* at most MaxStmts assignments, a constructor and a destructor.           *)
(***************************************************************************)
X == Identifier("x")
P == Identifier("p")
IntType == PrimitiveType("int", TRUE)
Cond == BinaryExpression(X, "<", P)
Assign(target, value) == ExpressionStatement(AssignmentExpression(target, "=", value))
Increment == UnaryExpression("++", X, TRUE)

LeafStatements == {BreakStatement, ContinueStatement, Assign(X, IntegerLiteral(1))}

\* the clause kinds of a switch: any sequence of case and default clauses
ClauseKinds == UNION {[1..k -> {"case", "default"}] : k \in 1..MaxCases}

\* "switch (p) { case 1: s  default: break; ... }": the first clause holds s
Switch(kinds, s) ==
    SwitchStatement(P,
        [i \in 1..Len(kinds) |->
            CaseStatement(IF kinds[i] = "case" THEN IntegerLiteral(i) ELSE NoNode,
                          IF i = 1 THEN <<s>> ELSE <<BreakStatement>>)])

Ternary == TernaryExpression(Cond, IntegerLiteral(1), IntegerLiteral(2))

\* the leaves, and the switches and the ifs without else over them
BaseStatements ==
    LeafStatements
    \cup {Switch(kinds, s) : kinds \in ClauseKinds, s \in LeafStatements}
    \cup {IfStatement(Cond, s, NoNode) : s \in LeafStatements}

Wrap(S) ==
    {IfStatement(Cond, s, Assign(X, Ternary)) : s \in S}
    \cup {WhileStatement(Cond, s) : s \in S}
    \cup {DoWhileStatement(s, Cond) : s \in S}
    \cup {ForStatement(NoNode, Cond, Increment, s) : s \in S}
    \cup {Switch(<<"case", "default">>, s) : s \in S}

RECURSIVE Statements(_)
Statements(depth) ==
    IF depth <= 1 THEN BaseStatements
    ELSE BaseStatements \cup Wrap(Statements(depth - 1))

StraightLine ==
    {Assign(X, P), Assign(P, IntegerLiteral(1)),
     Assign(X, BinaryExpression(X, "*", IntegerLiteral(1))),
     Assign(X, BinaryExpression(IntegerLiteral(0), "+", P))}

Function(name, statements) ==
    FunctionDeclaration(IntType, name, <<Parameter(IntType, "p"), Parameter(IntType, "x")>>,
                        CompoundStatement(statements))

\* "y = x++; return y": an increment or a decrement of x, postfix or prefix,
\* assigned to y, and the return of y or of x
Y == Identifier("y")
IncrementFunction(operator, is_postfix, returned) ==
    Function("f", <<Assign(Y, UnaryExpression(operator, X, is_postfix)),
                    ReturnStatement(returned)>>)
IncrementPrograms ==
    {<<IncrementFunction(operator, is_postfix, returned)>> :
        operator \in {"++", "--"}, is_postfix \in BOOLEAN, returned \in {X, Y}}

Programs ==
    {<<Function("f", <<Assign(X, IntegerLiteral(0)), s, ReturnStatement(X)>>)>> :
        s \in Statements(MaxDepth)}
    \cup {<<Function("f", <<s>>)>> : s \in Statements(MaxDepth - 1)}
    \cup {<<Function("f", body \o <<ReturnStatement(X)>>)>> :
            body \in UNION {[1..k -> StraightLine] : k \in 0..MaxStmts}}
    \cup IncrementPrograms
    \cup {<<ConstructorDeclaration("C", <<Parameter(IntType, "p")>>,
                                   <<MemberInitializer("m", P)>>, CompoundStatement(<<s>>)),
            DestructorDeclaration("C", CompoundStatement(<<s>>)),
            FunctionDeclaration(IntType, "g", <<>>, NoNode),
            Function("f", <<s>>)>> : s \in LeafStatements}

(***************************************************************************)
(* The IR pipeline: generate, then optimize_ir at some level.              *)
(***************************************************************************)
Levels == 0..3

InitIR ==
    /\ ast \in Programs
    /\ stage = "ast"
    /\ ir = [functions |-> <<>>, exc |-> "none"]
    /\ ir0 = <<>>
    /\ optlevel = -1
    /\ input = <<>>
    /\ sa = NewAnalyzer
    /\ ok = "none"

\* IRGenerator().generate(program)
Generate ==
    /\ stage = "ast"
    /\ LET g == generate(ast)
       IN  /\ ir' = [functions |-> g.functions, exc |-> g.exc]
           /\ ir0' = g.functions
           /\ stage' = IF Raised(g) THEN "raised" ELSE "generated"
    /\ UNCHANGED <<ast, optlevel, input, sa, ok>>

\* optimize_ir(program, level)
OptimizeIr(level) ==
    /\ stage = "generated"
    /\ ir' = optimize_ir(ir.functions, level)
    /\ optlevel' = level
    /\ stage' = "optimized"
    /\ UNCHANGED <<ast, ir0, input, sa, ok>>

NextIR ==
    \/ Generate
    \/ \E level \in Levels : OptimizeIr(level)

SpecIR == InitIR /\ [][NextIR]_vars

(***************************************************************************)
(* The optimizer on IR programs given directly: one function f(p, x) whose *)
(* instruction list folds one operation on two constants, is the list of   *)
(* example_constant_folding, or is a sequence of at most MaxInstrs         *)
(* assignments and operations on p, x and y, ended by a RETURN.  After     *)
(* optimize_ir the same call may be made a second time; instead of         *)
(* optimize_ir one pass of the optimizer may be run alone.                 *)
(***************************************************************************)
MaxConst == 3       \* folded constants range over -MaxConst..MaxConst
MaxInstrs == 3      \* instructions before the RETURN of a sequence

BinaryOpcodes ==
    {"ADD", "SUB", "MUL", "DIV", "MOD", "AND", "OR", "XOR", "SHL", "SHR", "LAND", "LOR",
     "EQ", "NE", "LT", "LE", "GT", "GE"}

Vp == IRVariable("p")
Vx == IRVariable("x")
Vy == IRVariable("y")
Vz == IRVariable("z")
Return(value) == IRInstruction("RETURN", None, value, None, None)
Move(result, value) == IRInstruction("ASSIGN", result, value, None, None)
Binary(opcode, result, left, right) == IRInstruction(opcode, result, left, right, None)
Nop == IRInstruction("NOP", None, None, None, None)

\* t0 = k1 OP k2; return t0
FoldIR ==
    {<<Binary(opcode, IRTemp("t0"), IRConstant(k1), IRConstant(k2)), Return(IRTemp("t0"))>> :
        opcode \in BinaryOpcodes, k1 \in -MaxConst..MaxConst, k2 \in -MaxConst..MaxConst}

\* the IR of int compute() { int x = 2 + 3; int y = x * 4; int z = y + 10; return z; }
ComputeIR ==
    <<Binary("ADD", IRTemp("t0"), IRConstant(2), IRConstant(3)), Move(Vx, IRTemp("t0")),
      Binary("MUL", IRTemp("t1"), Vx, IRConstant(4)), Move(Vy, IRTemp("t1")),
      Binary("ADD", IRTemp("t2"), Vy, IRConstant(10)), Move(Vz, IRTemp("t2")),
      Return(Vz)>>

SequenceInstructions ==
    {Move(Vx, IRConstant(1)), Move(Vx, Vp), Move(Vy, Vx), Move(Vp, IRConstant(2)),
     Binary("ADD", Vx, IRConstant(1), Vp), Binary("ADD", Vx, Vp, IRConstant(1)),
     Binary("ADD", IRTemp("t0"), Vx, Vy), IRInstruction("NEG", Vx, Vx, None, None), Nop}

SequenceIR ==
    {body \o <<Return(value)>> :
        body \in UNION {[1..k -> SequenceInstructions] : k \in 0..MaxInstrs},
        value \in {Vx, Vy}}

IRPrograms == FoldIR \cup {ComputeIR} \cup SequenceIR

PassNames ==
    {"constant_folding", "constant_propagation", "copy_propagation",
     "dead_code_elimination", "remove_nops", "peephole"}

\* the instruction list one pass leaves, run as optimize_function and
\* PeepholeOptimizer.optimize run it
RunPass(name, instructions) ==
    LET f == [instructions |-> instructions, changed |-> FALSE]
    IN  CASE name = "constant_folding" -> constant_folding(f).instructions
          [] name = "constant_propagation" -> constant_propagation(f).instructions
          [] name = "copy_propagation" -> copy_propagation(f).instructions
          [] name = "dead_code_elimination" -> dead_code_elimination(f).instructions
          [] name = "remove_nops" -> remove_nops(f).instructions
          [] name = "peephole" -> peephole_optimize(instructions).instructions

InitOpt ==
    /\ ir0 \in {<<IRFunction("f", <<Vp, Vx>>, instructions)>> : instructions \in IRPrograms}
    /\ ir = [functions |-> ir0, exc |-> "none"]
    /\ stage = "generated"
    /\ ast = <<>>
    /\ optlevel = -1
    /\ input = <<>>
    /\ sa = NewAnalyzer
    /\ ok = "none"

\* optimize_ir(program, level) on the program a first call at this level returned
OptimizeAgain ==
    /\ stage = "optimized"
    /\ ir.exc = "none"
    /\ ir' = optimize_ir(ir.functions, optlevel)
    /\ stage' = "optimized again"
    /\ UNCHANGED <<ast, ir0, optlevel, input, sa, ok>>

\* one pass on the function of the program
Pass(name) ==
    /\ stage = "generated"
    /\ ir' = [ir EXCEPT !.functions[1].instructions = RunPass(name, @)]
    /\ stage' = name
    /\ UNCHANGED <<ast, ir0, optlevel, input, sa, ok>>

NextOpt ==
    \/ \E level \in Levels : OptimizeIr(level)
    \/ OptimizeAgain
    \/ \E name \in PassNames : Pass(name)

SpecOpt == InitOpt /\ [][NextOpt]_vars


(***************************************************************************)
(* The sources of the front end.  A source is the list of its lexemes;     *)
(* Lex gives each the token type the lexer gives it and ends the list with *)
(* the EOF token.                                                          *)
(***************************************************************************)
WordType ==
    ("int" :> "INT") @@ ("void" :> "VOID") @@ ("double" :> "DOUBLE") @@ ("bool" :> "BOOL") @@
    ("return" :> "RETURN") @@ ("if" :> "IF") @@ ("else" :> "ELSE") @@ ("while" :> "WHILE") @@
    ("do" :> "DO") @@ ("for" :> "FOR") @@ ("break" :> "BREAK") @@
    ("continue" :> "CONTINUE") @@ ("switch" :> "SWITCH") @@ ("case" :> "CASE") @@
    ("default" :> "DEFAULT") @@ ("namespace" :> "NAMESPACE") @@ ("(" :> "LPAREN") @@
    (")" :> "RPAREN") @@ ("{" :> "LBRACE") @@ ("}" :> "RBRACE") @@ (";" :> "SEMICOLON") @@
    ("," :> "COMMA") @@ (":" :> "COLON") @@ ("=" :> "ASSIGN") @@ ("+" :> "PLUS") @@
    ("<" :> "LESS_THAN") @@ ("++" :> "INCREMENT") @@ ("?" :> "QUESTION") @@
    ("0" :> "INTEGER") @@ ("1" :> "INTEGER") @@ ("5" :> "INTEGER") @@ ("42" :> "INTEGER")

RECURSIVE LexFrom(_, _)
LexFrom(words, i) ==
    IF i > Len(words) THEN <<Token("EOF", "")>>
    ELSE <<Token(IF words[i] \in DOMAIN WordType THEN WordType[words[i]] ELSE "IDENTIFIER",
                 words[i])>> \o LexFrom(words, i + 1)
Lex(words) == LexFrom(words, 1)

SimpleStatements ==
    { <<"int", "x", "=", "42", ";">>, <<"int", "y", "=", "z", ";">>,
      <<"return", "x", ";">>, <<"return", "a", "+", "b", ";">>, <<"return", "0", ";">>,
      <<"return", ";">>, <<"return", "a", ";">>, <<"x", "=", "1", ";">>,
      <<"a", "<", "b", "?", "a", ":", "b", ";">>, <<"a", ";">>, <<"z", ";">>, <<"x", ";">>,
      <<"break", ";">>, <<"continue", ";">>, <<"a", "++", ";">> }

WrapWords(S) ==
    {<<"while", "(", "a", "<", "b", ")", "{">> \o s \o <<"}">> : s \in S}
    \cup {<<"while", "(", "1", ")">> \o s : s \in S}
    \cup {<<"if", "(", "a", ")">> \o s \o <<"else", "a", ";">> : s \in S}
    \cup {<<"do">> \o s \o <<"while", "(", "a", ")", ";">> : s \in S}
    \cup {<<"for", "(", ";", "a", "<", "b", ";", "a", "++", ")", "{">> \o s \o <<"}">> :
            s \in S}
    \cup {<<"switch", "(", "a", ")", "{", "case", "1", ":">> \o s
            \o <<"default", ":", "break", ";", "}">> : s \in S}
    \cup {<<"{", "int", "x", "=", "5", ";", "{">> \o s \o <<"}", "}">> : s \in S}

RECURSIVE SourceStatements(_)
SourceStatements(depth) ==
    IF depth <= 1 THEN SimpleStatements
    ELSE SimpleStatements \cup WrapWords(SourceStatements(depth - 1))

\* the bodies of n simple statements
RECURSIVE Bodies(_)
Bodies(n) == IF n = 0 THEN {<<>>} ELSE {b \o s : b \in Bodies(n - 1), s \in SimpleStatements}

FunctionWords(type, name, body) ==
    <<type, name, "(", "int", "a", ",", "int", "b", ")", "{">> \o body \o <<"}">>

\* the programs the sections of the documentation on semantic analysis name
MainSource ==
    <<"int", "main", "(", ")", "{", "int", "x", "=", "42", ";", "return", "x", ";", "}">>
AddSource ==
    <<"int", "add", "(", "int", "a", ",", "int", "b", ")", "{",
      "return", "a", "+", "b", ";", "}">>
UndeclaredSource ==
    <<"int", "main", "(", ")", "{", "int", "x", "=", "5", ";", "int", "y", "=", "z", ";",
      "return", "0", ";", "}">>
OverloadSources ==
    { <<"int", "f", "(", "int", "a", ")", ";", "int", "f", "(", "double", "a", ")", ";">>,
      <<"int", "f", "(", "int", "a", ")", "{", "return", "1", ";", "}",
        "int", "f", "(", "double", "a", ")", "{", "return", "0", ";", "}">>,
      <<"int", "f", "(", "int", "a", ")", ";", "int", "f", "(", "int", "a", ")", ";">>,
      <<"namespace", "N", "{", "int", "f", "(", ")", ";", "int", "f", "(", "int", "a", ")",
        ";", "}">> }
GlobalSources ==
    { <<"int", "x", "=", "5", ";", "int", "x", ";">>, <<"bool", "c", "=", "1", ";">>,
      <<"int", "y", "=", "z", ";">>,
      <<"namespace", "N", "{", "int", "x", ";", "void", "f", "(", ")", "{", "x", ";", "}",
        "}", "int", "f", "(", "int", "a", ",", "int", "a", ")", ";">>,
      <<"int", "f", "(", ")", "{", "return", "1", "}">> }

SourceWords ==
    {FunctionWords(type, "f", body) :
        type \in {"int", "void"}, body \in UNION {Bodies(n) : n \in 0..(MaxStmts - 1)}}
    \cup {FunctionWords("void", "f", s) \o <<"void", "g", "(", ")", "{">> \o t \o <<"}">> :
            s \in SourceStatements(MaxDepth - 1),
            t \in {<<"break", ";">>, <<"continue", ";">>}}
    \cup {MainSource, AddSource, UndeclaredSource} \cup OverloadSources \cup GlobalSources

Sources == {Lex(words) : words \in SourceWords}

(***************************************************************************)
(* The front end: Parser(tokens).parse(), then SemanticAnalyzer().analyze  *)
(* of the Program parsed, or of a Program built from the nodes directly.   *)
(***************************************************************************)
InitSem ==
    /\ \/ input \in Sources /\ ast = <<>> /\ stage = "source"
       \/ input = <<>> /\ ast \in Programs /\ stage = "ast"
    /\ ir = [functions |-> <<>>, exc |-> "none"]
    /\ ir0 = <<>>
    /\ optlevel = -1
    /\ sa = NewAnalyzer
    /\ ok = "none"

\* Parser(input).parse()
Parse ==
    /\ stage = "source"
    /\ LET program == parse(input)
       IN  /\ ast' = program.declarations
           /\ stage' = IF program.exc = NoException THEN "parsed"
                       ELSE IF program.exc.cls = NeverReturns THEN "parsing"
                       ELSE "parse error"
    /\ UNCHANGED <<ir, ir0, optlevel, input, sa, ok>>

\* analyzer.analyze(program)
Analyze ==
    /\ stage \in {"parsed", "ast"}
    /\ LET analyzed == analyze(ast)
       IN  /\ sa' = analyzed.a
           /\ ok' = analyzed.val
    /\ stage' = "analyzed"
    /\ UNCHANGED <<ast, ir, ir0, optlevel, input>>

NextSem == Parse \/ Analyze

SpecSem == InitSem /\ [][NextSem]_vars


(***************************************************************************)
(* The parser on token lists of any shape: the tokens of at most MaxTokens *)
(* words of TailWords, alone, in the body of a function, or in the body of *)
(* a switch statement, ended by the EOF token.                             *)
(***************************************************************************)
MaxTokens == 4      \* words after the prefix of a token list

TailWords == {"{", "}", "x", ";", "case", ":", "default", "switch"}
Prefixes ==
    {<<>>, <<"void", "f", "(", ")", "{">>,
     <<"void", "f", "(", ")", "{", "switch", "(", "x", ")", "{">>}
TokenLists ==
    {Lex(prefix \o tail) : prefix \in Prefixes,
                           tail \in UNION {[1..k -> TailWords] : k \in 0..MaxTokens}}

InitParse ==
    /\ input \in TokenLists
    /\ stage = "source"
    /\ ast = <<>>
    /\ ir = [functions |-> <<>>, exc |-> "none"]
    /\ ir0 = <<>>
    /\ optlevel = -1
    /\ sa = NewAnalyzer
    /\ ok = "none"

NextParse == Parse

SpecParse == InitParse /\ [][NextParse]_vars


(***************************************************************************)
(* SymbolTable (symbol_table.py) as an object of its own, driven by any    *)
(* sequence of its operations.  Every Scope ever created is kept: the      *)
(* scopes are numbered in the order of their creation, scope 1 is          *)
(* global_scope, parent is the number of the parent scope (0 for None) and *)
(* current_scope is the number of the scope the table points at.  The list *)
(* children of a Scope, which no method reads, is not kept.  The table is  *)
(* the variable sa, stage names the last operation, input holds its        *)
(* arguments and ok what it returned or raised.                            *)
(***************************************************************************)
MaxScopes == 3      \* Scope objects created, global_scope included

SymbolNames == {"x"}
SymbolTypes == {IntType, PrimitiveType("float", TRUE)}

Scope_init(name, parent) == [name |-> name, parent |-> parent, symbols |-> <<>>]

\* SymbolTable.__init__
NewSymbolTable ==
    [scopes |-> <<Scope_init("global", 0)>>, current_scope |-> 1, scope_level |-> 0,
     current_namespace |-> <<>>, current_class |-> None, exc |-> NoException]

SymbolTable_enter_scope(t, name) ==
    [t EXCEPT !.scopes = Append(@, Scope_init(name, t.current_scope)),
              !.current_scope = Len(t.scopes) + 1,
              !.scope_level = @ + 1]

\* exit_scope without the test for the global scope
exit_scope_unchecked(t) ==
    [t EXCEPT !.current_scope = IF t.scopes[@].parent = 0 THEN @ ELSE t.scopes[@].parent,
              !.scope_level = @ - 1]

SymbolTable_exit_scope(t) ==
    IF t.scopes[t.current_scope].parent = 0
    THEN Throw(t, "Exception", "Cannot exit global scope")
    ELSE [t EXCEPT !.current_scope = t.scopes[@].parent, !.scope_level = @ - 1]

\* Scope.lookup_local of scope s: <<symbol>>, or <<>> for None
Scope_lookup_local(t, s, name) ==
    IF name \in DOMAIN t.scopes[s].symbols THEN <<t.scopes[s].symbols[name]>> ELSE <<>>

\* Scope.lookup of scope s
RECURSIVE Scope_lookup(_, _, _)
Scope_lookup(t, s, name) ==
    LET symbol == Scope_lookup_local(t, s, name)
    IN  IF symbol # <<>> THEN symbol
        ELSE IF t.scopes[s].parent # 0 THEN Scope_lookup(t, t.scopes[s].parent, name)
        ELSE <<>>

\* lookup through every scope of the table, the last created first, instead of
\* through the parents of current_scope
lookup_any_scope(t, name) ==
    LET RECURSIVE From(_)
        From(s) == IF s = 0 THEN <<>>
                   ELSE IF Scope_lookup_local(t, s, name) # <<>>
                   THEN Scope_lookup_local(t, s, name)
                   ELSE From(s - 1)
    IN  From(Len(t.scopes))

SymbolTable_lookup(t, name) == Scope_lookup(t, t.current_scope, name)

\* Scope.define of scope s
Scope_define(t, s, symbol) ==
    IF symbol.name \in DOMAIN t.scopes[s].symbols
    THEN Throw(t, "Exception", "Symbol '" \o symbol.name \o "' already defined in this scope.")
    ELSE [t EXCEPT !.scopes[s].symbols = DictSet(@, symbol.name, symbol)]

\* define without the test for a redefinition: the symbol replaces the one the
\* current scope has
define_overwriting(t, name, kind, symbol_type) ==
    LET symbol == Symbol(name, kind, symbol_type, t.scope_level)
    IN  RA([t EXCEPT !.scopes[t.current_scope].symbols = DictSet(@, name, symbol)],
           <<symbol>>)

\* returns the table and the created symbol
SymbolTable_define(t, name, kind, symbol_type) ==
    IF Scope_lookup_local(t, t.current_scope, name) # <<>>
    THEN RA(Throw(t, "Exception", "Redifinition of '" \o name \o "' in scope '"
                                  \o t.scopes[t.current_scope].name \o "'"), <<>>)
    ELSE LET symbol == Symbol(name, kind, symbol_type, t.scope_level)
         IN  RA(Scope_define(t, t.current_scope, symbol), <<symbol>>)

SymbolTable_enter_namespace(t, name) ==
    SymbolTable_enter_scope([t EXCEPT !.current_namespace = Append(@, name)],
                            "namespace::" \o name)
SymbolTable_exit_namespace(t) ==
    SymbolTable_exit_scope([t EXCEPT !.current_namespace =
                                         IF @ # <<>> THEN SubSeq(@, 1, Len(@) - 1) ELSE @])
SymbolTable_enter_class(t, name) ==
    SymbolTable_enter_scope([t EXCEPT !.current_class = <<name>>], "class::" \o name)
SymbolTable_exit_class(t) ==
    SymbolTable_exit_scope([t EXCEPT !.current_class = None])
SymbolTable_enter_function(t, name) == SymbolTable_enter_scope(t, "function::" \o name)
SymbolTable_exit_function(t) == SymbolTable_exit_scope(t)

EnterOps == {"enter_scope", "enter_namespace", "enter_class", "enter_function"}
ExitOps == {"exit_scope", "exit_namespace", "exit_class", "exit_function"}

InitSym ==
    /\ sa = NewSymbolTable
    /\ stage = "new"
    /\ input = <<>>
    /\ ok = [exc |-> NoException, val |-> <<>>]
    /\ ast = <<>>
    /\ ir = [functions |-> <<>>, exc |-> "none"]
    /\ ir0 = <<>>
    /\ optlevel = -1

\* the caller catches what the operation raised: the table lives on
Called(op, arguments, t, val) ==
    /\ sa' = [t EXCEPT !.exc = NoException]
    /\ ok' = [exc |-> t.exc, val |-> val]
    /\ stage' = op
    /\ input' = arguments
    /\ UNCHANGED <<ast, ir, ir0, optlevel>>

Enter(op) ==
    /\ Len(sa.scopes) < MaxScopes
    /\ Called(op, <<>>,
              CASE op = "enter_scope" -> SymbolTable_enter_scope(sa, "")
                [] op = "enter_namespace" -> SymbolTable_enter_namespace(sa, "n")
                [] op = "enter_class" -> SymbolTable_enter_class(sa, "C")
                [] op = "enter_function" -> SymbolTable_enter_function(sa, "f"),
              <<>>)

Exit(op) ==
    /\ op \in ExitOps
    /\ Called(op, <<>>,
              CASE op = "exit_scope" -> SymbolTable_exit_scope(sa)
                [] op = "exit_namespace" -> SymbolTable_exit_namespace(sa)
                [] op = "exit_class" -> SymbolTable_exit_class(sa)
                [] op = "exit_function" -> SymbolTable_exit_function(sa),
              <<>>)

Define(name, symbol_type) ==
    /\ name \in SymbolNames
    /\ LET defined == SymbolTable_define(sa, name, "VARIABLE", symbol_type)
       IN  Called("define", <<name, symbol_type>>, defined.a, defined.val)

Lookup(name) ==
    /\ name \in SymbolNames
    /\ Called("lookup", <<name>>, sa, SymbolTable_lookup(sa, name))

NextSym ==
    \/ \E op \in EnterOps : Enter(op)
    \/ \E op \in ExitOps : Exit(op)
    \/ \E name \in SymbolNames, symbol_type \in SymbolTypes : Define(name, symbol_type)
    \/ \E name \in SymbolNames : Lookup(name)

SpecSym == InitSym /\ [][NextSym]_vars


(***************************************************************************)
(* TypeRegistry (symbol_table.py) as an object of its own: classes are     *)
(* registered with lists of base-class names, which need not be registered *)
(* themselves, and is_derived_from is asked of any two names.  The         *)
(* registry is the variable sa, stage names the last operation, input      *)
(* holds its arguments and ok what it returned or raised.  A call of       *)
(* is_derived_from that reaches, with the same base, a class whose call is *)
(* still on the stack repeats that call for ever: Python ends it with      *)
(* RecursionError at the recursion limit, which nothing below catches.     *)
(***************************************************************************)
MaxBases == 2       \* base classes in one register_class

ClassNames == {"A", "B", "C"}
RegisteredNames == {"A", "B"}
BaseLists == UNION {[1..k -> ClassNames] : k \in 0..MaxBases}

\* TypeRegistry.__init__
NewTypeRegistry ==
    [types |-> <<>>, class_members |-> <<>>, class_bases |-> <<>>, exc |-> NoException]

register_type(r, name, type_node) ==
    IF name \in DOMAIN r.types
    THEN Throw(r, "Exception", "Type '" \o name \o "' already defined")
    ELSE [r EXCEPT !.types = DictSet(@, name, type_node)]

register_class(r, name, type_node, base_classes) ==
    LET r1 == register_type(r, name, type_node)
    IN  IF Thrown(r1) THEN r1
        ELSE [r1 EXCEPT !.class_members = DictSet(@, name, <<>>),
                        !.class_bases = DictSet(@, name, base_classes)]

get_base_classes(r, class_name) ==
    IF class_name \in DOMAIN r.class_bases THEN r.class_bases[class_name] ELSE <<>>

\* "True", "False", or "RecursionError"; stack is the set of the classes whose
\* calls are in progress
RECURSIVE DerivedFrom(_, _, _, _)
RECURSIVE DerivedFromBases(_, _, _, _, _)
DerivedFrom(r, derived, base, stack) ==
    IF derived = base THEN "True"
    ELSE IF derived \in stack THEN "RecursionError"
    ELSE DerivedFromBases(r, get_base_classes(r, derived), 1, base, stack \cup {derived})
\* "for b in bases", from the i-th base on
DerivedFromBases(r, bases, i, base, stack) ==
    IF i > Len(bases) THEN "False"
    ELSE LET WithResult(result) ==
                 IF result = "False" THEN DerivedFromBases(r, bases, i + 1, base, stack)
                 ELSE result
         IN  WithResult(DerivedFrom(r, bases[i], base, stack))

is_derived_from(r, derived, base) == DerivedFrom(r, derived, base, {})

InitReg ==
    /\ sa = NewTypeRegistry
    /\ stage = "new"
    /\ input = <<>>
    /\ ok = [exc |-> NoException, val |-> <<>>]
    /\ ast = <<>>
    /\ ir = [functions |-> <<>>, exc |-> "none"]
    /\ ir0 = <<>>
    /\ optlevel = -1

RegisterClass(name, base_classes) ==
    /\ name \in RegisteredNames
    /\ Called("register_class", <<name, base_classes>>,
              register_class(sa, name, "ClassType", base_classes), <<>>)

IsDerivedFrom(derived, base) ==
    /\ derived \in ClassNames
    /\ LET result == is_derived_from(sa, derived, base)
       IN  IF result = "RecursionError"
           THEN Called("is_derived_from", <<derived, base>>,
                       Throw(sa, "RecursionError", "maximum recursion depth exceeded"), <<>>)
           ELSE Called("is_derived_from", <<derived, base>>, sa, <<result>>)

NextReg ==
    \/ \E name \in RegisteredNames, base_classes \in BaseLists : RegisterClass(name, base_classes)
    \/ \E derived \in ClassNames, base \in ClassNames : IsDerivedFrom(derived, base)

SpecReg == InitReg /\ [][NextReg]_vars


(***************************************************************************)
(* TypeChecker.check_type_compatibility on pairs of primitive types: input *)
(* is the pair <<source, target>> and ok what the call returned.           *)
(***************************************************************************)
PrimitiveNames ==
    {"int", "char", "short", "long", "long long", "float", "double", "bool", "void"}
PrimitiveTypes == {PrimitiveType(name, is_signed) : name \in PrimitiveNames, is_signed \in BOOLEAN}

InitTypes ==
    /\ input \in PrimitiveTypes \X PrimitiveTypes
    /\ stage = "types"
    /\ ok = "none"
    /\ sa = NewAnalyzer
    /\ ast = <<>>
    /\ ir = [functions |-> <<>>, exc |-> "none"]
    /\ ir0 = <<>>
    /\ optlevel = -1

\* checker.check_type_compatibility(source, target)
CheckTypeCompatibility ==
    /\ stage = "types"
    /\ ok' = IF check_type_compatibility(input[1], input[2]) THEN "True" ELSE "False"
    /\ stage' = "checked"
    /\ UNCHANGED <<ast, ir, ir0, optlevel, input, sa>>

NextTypes == CheckTypeCompatibility

SpecTypes == InitTypes /\ [][NextTypes]_vars


(***************************************************************************)
(* Lexer (lexer.py) on sources given as lists of characters.  The lexer is *)
(* the record of its source and its position; current_char is the          *)
(* character at the position, NoChar (None) past the end.  Line and column *)
(* are not kept.  The characters of the inputs are those of Chars: the     *)
(* branches for comments, preprocessor lines, character and string         *)
(* literals and for literals that start with 0 are not modelled, and no    *)
(* word over these letters is a keyword.                                   *)
(***************************************************************************)
MaxChars == 4       \* characters of a source

Chars == {"1", ".", "e", "L", "u", "f", "+", ";", " "}
CharSources == UNION {[1..k -> Chars] : k \in 0..MaxChars}

NoChar == "None"
DigitChars == {Digit[i] : i \in 1..10}
AlphaChars == {"e", "E", "f", "F", "l", "L", "u", "U", "x", "X"}
SpaceChars == {" ", "\n", "\t"}

\* Lexer.__init__
NewLexer(source_code) == [source |-> source_code, position |-> 0, exc |-> NoException]
Lexer_peek(l, offset) ==
    IF l.position + offset < Len(l.source) THEN l.source[l.position + offset + 1] ELSE NoChar
Lexer_current_char(l) == Lexer_peek(l, 0)
Lexer_advance(l) == [l EXCEPT !.position = @ + 1]

\* "while self.current_char and self.current_char in chars: ..., self.advance()":
\* the lexer and the string after the loop; the separator ' is passed over
RECURSIVE ReadWhile(_, _, _)
ReadWhile(l, str, chars) ==
    IF Lexer_current_char(l) \in chars
    THEN ReadWhile(Lexer_advance(l),
                   IF Lexer_current_char(l) = "'" THEN str ELSE str \o Lexer_current_char(l),
                   chars)
    ELSE [l |-> l, str |-> str]

skip_whitespace(l) == ReadWhile(l, "", SpaceChars).l

\* read_number of a decimal literal: [l, val], val the token
read_number(l) ==
    LET Take(n) == [l |-> Lexer_advance(n.l), str |-> n.str \o Lexer_current_char(n.l)]
        Made(n, is_float) ==
            [l |-> n.l, val |-> Token(IF is_float THEN "FLOAT_LITERAL" ELSE "INTEGER", n.str)]
        \* the suffixes; "self.current_char in 'fFlL'" with current_char None is a
        \* TypeError
        Suffixes(n, is_float) ==
            IF Lexer_current_char(n.l) = NoChar
            THEN [l |-> Throw(n.l, "TypeError",
                              "'in <string>' requires string as left operand, not NoneType"),
                  val |-> <<>>]
            ELSE IF Lexer_current_char(n.l) \in {"f", "F", "l", "L"} THEN Made(Take(n), TRUE)
            ELSE IF is_float THEN Made(n, TRUE)
            ELSE Made(ReadWhile(n.l, n.str, {"u", "U", "l", "L"}), FALSE)
        \* the digits of the exponent, after its letter and its sign
        ExponentDigits(n) ==
            IF Lexer_current_char(n.l) \notin DigitChars
            THEN [l |-> Throw(n.l, "LexerError", "Invalid exponent in floating-point literal"),
                  val |-> <<>>]
            ELSE Suffixes(ReadWhile(n.l, n.str, DigitChars), TRUE)
        ExponentSign(n) ==
            ExponentDigits(IF Lexer_current_char(n.l) \in {"+", "-"} THEN Take(n) ELSE n)
        Exponent(n, is_float) ==
            IF Lexer_current_char(n.l) \in {"e", "E"} THEN ExponentSign(Take(n))
            ELSE Suffixes(n, is_float)
        \* the decimal point and the digits after it
        Point(n) ==
            IF /\ Lexer_current_char(n.l) = "."
               /\ Lexer_peek(n.l, 1) # NoChar
               /\ Lexer_peek(n.l, 1) \in DigitChars \cup {"e", "E"}
            THEN Exponent(ReadWhile(Lexer_advance(n.l), n.str \o ".", DigitChars \cup {"'"}),
                          TRUE)
            ELSE Exponent(n, FALSE)
    IN  Point(ReadWhile(l, "", DigitChars \cup {"'"}))

read_identifier(l) ==
    LET word == ReadWhile(l, "", AlphaChars \cup DigitChars \cup {"_"})
    IN  [l |-> word.l, val |-> Token("IDENTIFIER", word.str)]

two_char_ops ==
    ("==" :> "EQUAL") @@ ("!=" :> "NOT_EQUAL") @@ ("<=" :> "LESS_EQUAL") @@
    (">=" :> "GREATER_EQUAL") @@ ("&&" :> "LOGICAL_AND") @@ ("||" :> "LOGICAL_OR") @@
    ("++" :> "INCREMENT") @@ ("--" :> "DECREMENT") @@ ("->" :> "ARROW") @@ ("::" :> "SCOPE") @@
    ("<<" :> "LEFT_SHIFT") @@ (">>" :> "RIGHT_SHIFT") @@ ("+=" :> "PLUS_ASSIGN") @@
    ("-=" :> "MINUS_ASSIGN") @@ ("*=" :> "MULTIPLY_ASSIGN") @@ ("/=" :> "DIVIDE_ASSIGN") @@
    ("%=" :> "MODULO_ASSIGN") @@ ("&=" :> "AND_ASSIGN") @@ ("|=" :> "OR_ASSIGN") @@
    ("^=" :> "XOR_ASSIGN") @@ (".*" :> "DOT_STAR")
single_char_tokens ==
    ("+" :> "PLUS") @@ ("-" :> "MINUS") @@ ("*" :> "MULTIPLY") @@ ("/" :> "DIVIDE") @@
    ("%" :> "MODULO") @@ ("=" :> "ASSIGN") @@ ("<" :> "LESS_THAN") @@ (">" :> "GREATER_THAN") @@
    ("!" :> "LOGICAL_NOT") @@ ("&" :> "BITWISE_AND") @@ ("|" :> "BITWISE_OR") @@
    ("^" :> "BITWISE_XOR") @@ ("~" :> "BITWISE_NOT") @@ ("." :> "DOT") @@ ("(" :> "LPAREN") @@
    (")" :> "RPAREN") @@ ("{" :> "LBRACE") @@ ("}" :> "RBRACE") @@ ("[" :> "LBRACKET") @@
    ("]" :> "RBRACKET") @@ (";" :> "SEMICOLON") @@ ("," :> "COMMA") @@ (":" :> "COLON") @@
    ("?" :> "QUESTION")
three_char_ops ==
    ("<=>" :> "SPACESHIP") @@ ("..." :> "ELLIPSIS") @@ (">>=" :> "RIGHT_SHIFT_ASSIGN") @@
    ("<<=" :> "LEFT_SHIFT_ASSIGN") @@ ("->*" :> "ARROW_STAR")

\* [l, val]: the lexer after the token and the token
RECURSIVE get_next_token(_)
get_next_token(l) ==
    LET Or(x) == IF x = NoChar THEN "" ELSE x
        Operator(c, two_char, three_char) ==
            IF three_char \in DOMAIN three_char_ops
            THEN [l |-> Lexer_advance(Lexer_advance(Lexer_advance(l))),
                  val |-> Token(three_char_ops[three_char], three_char)]
            ELSE IF two_char \in DOMAIN two_char_ops
            THEN [l |-> Lexer_advance(Lexer_advance(l)),
                  val |-> Token(two_char_ops[two_char], two_char)]
            ELSE IF c \in DOMAIN single_char_tokens
            THEN [l |-> Lexer_advance(l), val |-> Token(single_char_tokens[c], c)]
            ELSE [l |-> Throw(Lexer_advance(l), "LexerError",
                              "Invalid character: '" \o c \o "'"),
                  val |-> <<>>]
        At(c) ==
            IF c = NoChar THEN [l |-> l, val |-> Token("EOF", "")]
            ELSE IF c \in SpaceChars THEN get_next_token(skip_whitespace(l))
            ELSE IF c \in DigitChars THEN read_number(l)
            ELSE IF c \in AlphaChars \cup {"_"} THEN read_identifier(l)
            ELSE Operator(c, c \o Or(Lexer_peek(l, 1)),
                          c \o Or(Lexer_peek(l, 1)) \o Or(Lexer_peek(l, 2)))
    IN  At(Lexer_current_char(l))

\* Lexer.tokenize: [l, val], val the list of the tokens
RECURSIVE TokenizeFrom(_, _)
TokenizeFrom(l, tokens) ==
    LET WithToken(next) ==
            IF next.l.exc # NoException THEN [l |-> next.l, val |-> tokens]
            ELSE IF next.val.type = "EOF" THEN [l |-> next.l, val |-> Append(tokens, next.val)]
            ELSE TokenizeFrom(next.l, Append(tokens, next.val))
    IN  WithToken(get_next_token(l))
tokenize(l) == TokenizeFrom(l, <<>>)

InitLex ==
    /\ input \in CharSources
    /\ stage = "characters"
    /\ ok = [exc |-> NoException, val |-> <<>>]
    /\ sa = NewAnalyzer
    /\ ast = <<>>
    /\ ir = [functions |-> <<>>, exc |-> "none"]
    /\ ir0 = <<>>
    /\ optlevel = -1

\* Lexer(source).tokenize()
Tokenize ==
    /\ stage = "characters"
    /\ LET tokens == tokenize(NewLexer(input))
       IN  ok' = [exc |-> tokens.l.exc, val |-> tokens.val]
    /\ stage' = "tokenized"
    /\ UNCHANGED <<ast, ir, ir0, optlevel, input, sa>>

NextLex == Tokenize

SpecLex == InitLex /\ [][NextLex]_vars

(* Expressions: the text of an expression is lexed by Lexer.tokenize and the
   tokens are parsed by Parser.parse_expression. An operator is the list of
   its characters. *)
BinaryOperators ==
    {<<"|", "|">>, <<"&", "&">>, <<"|">>, <<"^">>, <<"&">>, <<"=", "=">>, <<"!", "=">>,
     <<"<">>, <<">">>, <<"<", "=">>, <<">", "=">>, <<"<", "=", ">">>, <<"<", "<">>,
     <<">", ">">>, <<"+">>, <<"-">>, <<"*">>, <<"/">>, <<"%">>}
AssignmentOperators ==
    {<<"=">>, <<"+", "=">>, <<"-", "=">>, <<"*", "=">>, <<"/", "=">>, <<"%", "=">>}

\* operand operator operand operator operand
TwoOperatorSources ==
    {<<<<"x">>, first, <<"e">>, second, <<"u">>>> :
        first \in BinaryOperators \cup AssignmentOperators,
        second \in BinaryOperators \cup AssignmentOperators}
\* a ternary in the false branch, in the middle and under an assignment, and
\* a binary operator in the condition and in the false branch of a ternary
TernarySources ==
    {<<<<"x">>, <<"?">>, <<"e">>, <<":">>, <<"u">>, <<"?">>, <<"x">>, <<":">>, <<"e">>>>,
     <<<<"x">>, <<"?">>, <<"e">>, <<"?">>, <<"u">>, <<":">>, <<"x">>, <<":">>, <<"e">>>>,
     <<<<"x">>, <<"=">>, <<"e">>, <<"?">>, <<"u">>, <<":">>, <<"x">>>>}
        \cup {<<<<"x">>, operator, <<"e">>, <<"?">>, <<"u">>, <<":">>, <<"x">>>> :
                 operator \in BinaryOperators}
        \cup {<<<<"x">>, <<"?">>, <<"e">>, <<":">>, <<"u">>, operator, <<"x">>>> :
                 operator \in BinaryOperators}
ExpressionSources == TwoOperatorSources \cup TernarySources

\* the characters of the words, the words separated by one space
RECURSIVE Characters(_)
Characters(words) ==
    IF words = <<>> THEN <<>>
    ELSE IF Len(words) = 1 THEN Head(words)
    ELSE Head(words) \o <<" ">> \o Characters(Tail(words))

InitExpr ==
    /\ input \in ExpressionSources
    /\ stage = "expression"
    /\ ok = [exc |-> NoException, val |-> NoNode, rest |-> <<>>]
    /\ sa = NewAnalyzer
    /\ ast = <<>>
    /\ ir = [functions |-> <<>>, exc |-> "none"]
    /\ ir0 = <<>>
    /\ optlevel = -1

\* Parser(Lexer(source).tokenize()).parse_expression(); rest is the list of
\* the tokens that parse_expression left
ParseExpression ==
    /\ stage = "expression"
    /\ LET tokens == tokenize(NewLexer(Characters(input)))
           Parsed(expr) ==
               [exc |-> expr.p.exc, val |-> expr.val,
                rest |-> SubSeq(tokens.val, expr.p.position + 1, Len(tokens.val))]
       IN  ok' = IF tokens.l.exc # NoException
                 THEN [exc |-> tokens.l.exc, val |-> NoNode, rest |-> <<>>]
                 ELSE Parsed(parse_expression(NewParser(tokens.val)))
    /\ stage' = "expression parsed"
    /\ UNCHANGED <<ast, ir, ir0, optlevel, input, sa>>

NextExpr == ParseExpression

SpecExpr == InitExpr /\ [][NextExpr]_vars


(***************************************************************************)
(* Properties of the IR pipeline.                                          *)
(***************************************************************************)
Values == 0..MaxVal

\* the instruction lists of the generated program and of the program in ir
Generated(i) == ir0[i].instructions
Current(i) == ir.functions[i].instructions

\* C1: for every function and every valuation of its parameters, the function
\* after optimize_ir at level 1, 2 or 3 returns the value the unoptimized function
\* returns
C1_OptimizedReturnsSameValue ==
    (stage = "optimized" /\ optlevel \in 1..3 /\ ir.exc = "none") =>
        \A i \in 1..Len(ir0) : \A p \in Values, x \in Values :
            LET before == Run(Generated(i), p, x)
            IN  before.r = "return" => Run(Current(i), p, x) = before

LabelsAt(instrs) == {i \in 1..Len(instrs) : instrs[i].opcode = "LABEL"}
JumpsAt(instrs) ==
    {i \in 1..Len(instrs) : instrs[i].opcode \in {"GOTO", "IF_FALSE", "IF_TRUE"}}

\* C4: within one generated function no label is emitted by more than one LABEL
\* instruction
C4_LabelsEmittedOnce ==
    \A f \in 1..Len(ir0) : \A i, j \in LabelsAt(Generated(f)) :
        Generated(f)[i].label = Generated(f)[j].label => i = j

Errors == {sa.errors[i] : i \in 1..Len(sa.errors)}
UndefinedIdentifier(name) == "Semantic error: Undefined identifier: '" \o name \o "'"
BreakError == "Semantic error: 'break' statement not in loop or switch"
ContinueError == "Semantic error: 'continue' statement not in loop"

\* node holds a statement of the kind jump (BreakStatement or ContinueStatement)
\* that is lexically outside every loop body, and for a break outside every
\* switch body too; inside tells whether node itself is in such a body
RECURSIVE Stray(_, _, _)
Stray(node, jump, inside) ==
    LET Some(nodes, within) == \E i \in 1..Len(nodes) : Stray(nodes[i], jump, within)
    IN  CASE node.kind = jump -> ~inside
          [] node.kind \in {"FunctionDeclaration", "ConstructorDeclaration",
                            "DestructorDeclaration"} ->
                 node.body # NoNode /\ Stray(node.body, jump, FALSE)
          [] node.kind = "NamespaceDeclaration" -> Some(node.declarations, FALSE)
          [] node.kind = "CompoundStatement" -> Some(node.statements, inside)
          [] node.kind = "IfStatement" ->
                 \/ Stray(node.then_statement, jump, inside)
                 \/ node.else_statement # NoNode /\ Stray(node.else_statement, jump, inside)
          [] node.kind \in {"WhileStatement", "DoWhileStatement", "ForStatement"} ->
                 Stray(node.body, jump, TRUE)
          [] node.kind = "SwitchStatement" ->
                 Some(node.cases, inside \/ jump = "BreakStatement")
          [] node.kind = "CaseStatement" -> Some(node.statements, inside)
          [] OTHER -> FALSE
StrayIn(declarations, jump) ==
    \E i \in 1..Len(declarations) : Stray(declarations[i], jump, FALSE)

\* C2: when analyze has returned, the current scope is the global scope and
\* scope_level is 0, whatever errors or exceptions the visits met.
C2_ScopesExitedAfterAnalyze ==
    stage = "analyzed" => Len(sa.scopes) = 1 /\ sa.scope_level = 0

\* C6: an error is recorded for break exactly when a break stands outside every
\* loop and switch body, for continue exactly when a continue stands outside every
\* loop body, and in_loop and in_switch are back at their values from before the
\* visit once the visit of the outermost loops and switches has ended.
C6_BreakContinueFollowNesting ==
    stage = "analyzed" =>
        /\ BreakError \in Errors <=> StrayIn(ast, "BreakStatement")
        /\ ContinueError \in Errors <=> StrayIn(ast, "ContinueStatement")
        /\ ~sa.in_loop /\ ~sa.in_switch

\* C7: int main() { int x = 42; return x; } is analysed without error, the
\* local declaration of x being defined before the reference to x is resolved.
C7_LocalDeclarationResolves ==
    (stage = "analyzed" /\ input = Lex(MainSource)) => ok = "True" /\ sa.errors = <<>>

\* C8: a function of a non-void type that returns one of its int parameters, or
\* their sum, is analysed without error (as is int add(int a, int b) of the
\* documentation); return with a value in a void function, and return without one
\* in a non-void function, each record an error.
C8_ReturnCheckedAgainstDeclaredType ==
    stage = "analyzed" =>
        /\ input \in {Lex(AddSource),
                      Lex(FunctionWords("int", "f", <<"return", "a", ";">>)),
                      Lex(FunctionWords("int", "f", <<"return", "a", "+", "b", ";">>))}
               => ok = "True"
        /\ input \in {Lex(FunctionWords("void", "f", <<"return", "0", ";">>)),
                      Lex(FunctionWords("int", "f", <<"return", ";">>))}
               => ok = "False"

\* C9: analysing int main() { int x = 5; int y = z; return 0; } fails, and an
\* error recorded is the "Undefined identifier" message that names z.
C9_UndefinedIdentifierNamed ==
    (stage = "analyzed" /\ input = Lex(UndeclaredSource)) =>
        ok = "False" /\ UndefinedIdentifier("z") \in Errors

\* C10: a second declaration of a function name in the same scope records no
\* error; the registry holds both signatures under the qualified name and the
\* scope one symbol of kind FUNCTION for the name.
C10_OverloadsAccepted ==
    (stage = "analyzed" /\ input \in {Lex(words) : words \in OverloadSources}) =>
        /\ sa.errors = <<>>
        /\ \E name \in {"f", "N::f"} :
              /\ DOMAIN sa.function_overloads = {name}
              /\ Len(sa.function_overloads[name]) = 2
              /\ name = "f" => /\ "f" \in DOMAIN sa.scopes[1].symbols
                               /\ sa.scopes[1].symbols["f"].kind = "FUNCTION"

\* the break and continue errors a declaration records when analysed alone
AloneErrors(declaration) ==
    LET alone == analyze(<<declaration>>).a.errors
    IN  {alone[i] : i \in 1..Len(alone)} \cap {BreakError, ContinueError}

\* C11: for a program the parser produced, analyze returns True or False and
\* raises nothing, True exactly when no error was recorded, and the error a
\* declaration records when it is analysed alone for a break or a continue
\* outside every loop is in the list of the whole program, whatever the
\* declarations before it recorded.
C11_AnalyzeCollectsEveryError ==
    (stage = "analyzed" /\ input # <<>>) =>
        /\ ok \in {"True", "False"}
        /\ ok = "True" <=> sa.errors = <<>>
        /\ \A i \in 1..Len(ast) : AloneErrors(ast[i]) \subseteq Errors

(***************************************************************************)
(* Properties of the optimizer.                                            *)
(***************************************************************************)
\* C12: a second optimize_ir at the level of the first changes no instruction
\* of the program the first returned.
C12_SecondRunChangesNothing ==
    [][OptimizeAgain => ir'.exc = "none" /\ ir'.functions = ir.functions]_vars

\* constant_folding was run on a list of FoldIR
Folded(instructions) ==
    /\ instructions \in FoldIR
    /\ stage = "constant_folding"

\* C13: where constant_folding replaced t0 = k1 OP k2 by t0 = K, K is the value
\* of k1 OP k2 in the source language (DIV truncated toward zero, MOD the
\* remainder that goes with it, comparisons and logical operators 0 or 1); DIV
\* and MOD by 0 are left as they were.
C13_FoldedValueIsSourceValue ==
    \A i \in 1..Len(ir0) :
        Folded(Generated(i)) =>
            LET instr == Generated(i)[1]
                value == CBinaryOp(instr.opcode, instr.arg1.v, instr.arg2.v)
            IN  /\ Current(i)[1].opcode = "ASSIGN" => Current(i)[1].arg1 = IRConstant(value[1])
                /\ (instr.opcode \in {"DIV", "MOD"} /\ instr.arg2.v = 0)
                       => Current(i) = Generated(i)

\* C14: optimize_ir at level 3 of the IR of int compute() { int x = 2 + 3;
\* int y = x * 4; int z = y + 10; return z; } leaves no ADD and no MUL, and the
\* function returns the constant 30.
C14_ComputeFoldedTo30 ==
    (stage = "optimized" /\ optlevel = 3 /\ Generated(1) = ComputeIR) =>
        /\ ir.exc = "none"
        /\ \A j \in 1..Len(Current(1)) : Current(1)[j].opcode \notin {"ADD", "MUL"}
        /\ \E j \in 1..Len(Current(1)) : Current(1)[j] = Return(IRConstant(30))
        /\ Run(Current(1), 0, 0) = [r |-> "return", v |-> <<30>>]

\* the operand an instruction has in a slot, and whether it reads or defines
\* the name n
Operand(instr, slot) == IF slot = 1 THEN instr.arg1 ELSE instr.arg2
Reads(instr, slot, n) == IsTempOrVar(Operand(instr, slot)) /\ Operand(instr, slot).n = n
Defines(instr, n) == IsTempOrVar(instr.result) /\ instr.result.n = n
\* the last instruction before j that defines n, 0 if there is none
LastDefinition(instructions, j, n) ==
    LET defs == {i \in 1..(j - 1) : Defines(instructions[i], n)}
    IN  IF defs = {} THEN 0 ELSE CHOOSE i \in defs : \A k \in defs : k <= i

\* C15: in constant_propagation an instruction that defines x ends the binding
\* of x recorded earlier: a read of x whose last definition is not the
\* assignment of a constant is not replaced by a constant.
C15_DefinitionEndsBinding ==
    stage = "constant_propagation" =>
        \A j \in 1..Len(Generated(1)) : \A slot \in {1, 2} :
            LET read == Operand(Generated(1)[j], slot)
                last == IF IsTempOrVar(read) THEN LastDefinition(Generated(1), j, read.n) ELSE 0
            IN  (/\ last > 0
                 /\ ~(Generated(1)[last].opcode = "ASSIGN" /\ Generated(1)[last].arg1.k = "const"))
                    => Operand(Current(1)[j], slot) = read

\* C16: in copy_propagation, after ASSIGN x y with y a variable or a temporary,
\* an instruction that reads x as arg1 or arg2 before x is defined again has
\* that operand rewritten to y.
C16_CopyReplacesLaterReads ==
    stage = "copy_propagation" =>
        \A i \in 1..Len(Generated(1)) : \A j \in (i + 1)..Len(Generated(1)) : \A slot \in {1, 2} :
            LET copy == Generated(1)[i]
            IN  (/\ copy.opcode = "ASSIGN" /\ IsTempOrVar(copy.result) /\ IsTempOrVar(copy.arg1)
                 /\ Reads(Generated(1)[j], slot, copy.result.n)
                 /\ LastDefinition(Generated(1), j, copy.result.n) = i)
                    => Operand(Current(1)[j], slot) \in {copy.arg1, Current(1)[i].arg1}

\* C17: each pass of the optimizer (constant folding, constant propagation, copy
\* propagation, dead-code elimination, NOP removal, peephole) leaves every
\* function with at most as many instructions as it had before the pass.
C17_PassNeverAddsInstructions ==
    stage \in PassNames =>
        /\ Len(ir.functions) = Len(ir0)
        /\ \A i \in 1..Len(ir0) : Len(Current(i)) <= Len(Generated(i))
\* dead-code elimination removed an instruction
C17_Witness ==
    /\ stage = "dead_code_elimination"
    /\ Len(Current(1)) < Len(Generated(1))

(* Properties of the symbol table. *)
\* the scopes on the parent chain from scope s to the global scope
RECURSIVE Chain(_, _)
Chain(t, s) == IF s = 0 THEN {} ELSE {s} \cup Chain(t, t.scopes[s].parent)

\* C18: every scope maps each name to at most one Symbol: define of a name the
\* current scope has raises and leaves the mapping of every scope unchanged;
\* define of a name that only an enclosing scope has succeeds, enters the new
\* symbol in the current scope alone and shadows the enclosing one.
C18_DefineOncePerScope ==
    /\ [](\A s \in 1..Len(sa.scopes) : \A name \in DOMAIN sa.scopes[s].symbols :
              sa.scopes[s].symbols[name].name = name)
    /\ [][stage' = "define" =>
            LET name == input'[1]
                current == sa.current_scope
                symbol == Symbol(name, "VARIABLE", input'[2], sa.scope_level)
            IN  IF name \in DOMAIN sa.scopes[current].symbols
                THEN /\ ok'.exc.cls = "Exception"
                     /\ sa'.scopes = sa.scopes
                ELSE /\ ok' = [exc |-> NoException, val |-> <<symbol>>]
                     /\ sa'.scopes = [sa.scopes EXCEPT
                                         ![current].symbols = DictSet(@, name, symbol)]
                     /\ SymbolTable_lookup(sa', name) = <<symbol>>]_vars
\* define raised for a name of the current scope that shadows the symbol an
\* enclosing scope has for the name
C18_Witness ==
    /\ stage = "define"
    /\ ok.exc.cls = "Exception"
    /\ \E s \in Chain(sa, sa.current_scope) \ {sa.current_scope} :
           /\ input[1] \in DOMAIN sa.scopes[s].symbols
           /\ sa.scopes[s].symbols[input[1]] # sa.scopes[sa.current_scope].symbols[input[1]]

\* the number of parent links from scope s to the global scope
Depth(t, s) == Cardinality(Chain(t, s)) - 1

\* C19: lookup(name) returns the symbol of the innermost scope, on the parent
\* chain from current_scope to the global scope, that defines the name, and None
\* iff no scope of the chain defines it; a scope off the chain (a sibling, a child
\* that was exited) never gives the symbol.
C19_LookupInnermostOnChain ==
    stage = "lookup" =>
        LET name == input[1]
            defining == {s \in Chain(sa, sa.current_scope) : name \in DOMAIN sa.scopes[s].symbols}
            innermost == CHOOSE s \in defining : \A o \in defining : Depth(sa, o) <= Depth(sa, s)
        IN  /\ ok.exc = NoException
            /\ ok.val = <<>> <=> defining = {}
            /\ defining # {} => ok.val = <<sa.scopes[innermost].symbols[name]>>
\* lookup went up to an enclosing scope while a scope off the chain has another
\* symbol for the name
C19_Witness ==
    /\ stage = "lookup"
    /\ ok.val # <<>>
    /\ input[1] \notin DOMAIN sa.scopes[sa.current_scope].symbols
    /\ \E s \in 1..Len(sa.scopes) :
           /\ s \notin Chain(sa, sa.current_scope)
           /\ input[1] \in DOMAIN sa.scopes[s].symbols
           /\ <<sa.scopes[s].symbols[input[1]]>> # ok.val

\* C20: exit_scope (alone or from exit_namespace, exit_class, exit_function) at
\* the global scope raises and leaves current_scope and scope_level as they
\* were; after any sequence of enter and exit operations scope_level is at least
\* 0 and is the number of parent links from current_scope to the global scope.
C20_ScopeLevelIsDepth ==
    /\ [](/\ sa.scope_level >= 0
          /\ 1 \in Chain(sa, sa.current_scope)
          /\ sa.scope_level = Depth(sa, sa.current_scope))
    /\ [][(stage' \in ExitOps /\ sa.scopes[sa.current_scope].parent = 0) =>
              /\ ok'.exc = [cls |-> "Exception", msg |-> "Cannot exit global scope"]
              /\ sa'.current_scope = sa.current_scope
              /\ sa'.scope_level = sa.scope_level
              /\ sa'.scopes = sa.scopes]_vars
\* exit_scope raised at the global scope after scopes were entered and exited
C20_Witness ==
    /\ stage = "exit_scope"
    /\ ok.exc.cls = "Exception"
    /\ Len(sa.scopes) > 1

(* Properties of the type registry. *)
\* the classes reached from a class by zero or more base-class links
RECURSIVE ReachableFrom(_, _)
ReachableFrom(r, seen) ==
    LET next == seen \cup UNION {{get_base_classes(r, c)[i] : i \in 1..Len(get_base_classes(r, c))} :
                                    c \in seen}
    IN  IF next = seen THEN seen ELSE ReachableFrom(r, next)

\* C21: is_derived_from(derived, base) returns, whatever the registry holds
\* (base-class graphs with a cycle included), and returns True iff base is
\* reached from derived by zero or more base-class links.
C21_DerivedFromIsReachability ==
    stage = "is_derived_from" =>
        /\ ok.exc = NoException
        /\ ok.val = <<IF input[2] \in ReachableFrom(sa, {input[1]}) THEN "True" ELSE "False">>

(* Properties of the type checker. *)
\* the numeric family of the primitive types
NumericFamily == {"int", "char", "short", "long", "long long", "float", "double", "bool"}

\* C22: check_type_compatibility returns True for every pair of primitive types
\* whose names are both in the numeric family (bool included), whatever their
\* signedness.
C22_NumericFamilyCompatible ==
    (/\ stage = "checked"
     /\ input[1].name \in NumericFamily
     /\ input[2].name \in NumericFamily) => ok = "True"

(* Properties of the lexer. *)
\* C23: for every input the lexer accepts, whatever its last character is,
\* tokenize returns a list with exactly one EOF token, its last element; the
\* only exception that leaves tokenize is the LexerError of an invalid input.
C23_TokensEndWithOneEOF ==
    stage = "tokenized" =>
        /\ ok.exc.cls \in {"none", "LexerError"}
        /\ ok.exc = NoException =>
               /\ ok.val # <<>>
               /\ \A i \in 1..Len(ok.val) : ok.val[i].type = "EOF" <=> i = Len(ok.val)

\* the string of a list of characters
RECURSIVE Text(_)
Text(chars) == IF chars = <<>> THEN "" ELSE chars[1] \o Text(Tail(chars))
\* the lists of one or more of the integer suffix letters of Chars
IntegerSuffixes == UNION {[1..k -> {"u", "L"}] : k \in 1..(MaxChars - 2)}

\* C24: a decimal literal is a FLOAT token iff it has a fractional part or an
\* exponent (1.1 and 1e1 are, and no token of a source without "." and "e" is),
\* and a decimal integer followed by one or more of the suffix letters u, L is
\* one INTEGER token whose lexeme includes the suffix.
C24_FloatIffFractionOrExponent ==
    (stage = "tokenized" /\ ok.exc = NoException) =>
        /\ input \in {<<"1", ".", "1", ";">>, <<"1", "e", "1", ";">>} =>
               ok.val[1] = Token("FLOAT_LITERAL", Text(SubSeq(input, 1, 3)))
        /\ (\A i \in 1..Len(input) : input[i] \notin {".", "e"}) =>
               \A i \in 1..Len(ok.val) : ok.val[i].type # "FLOAT_LITERAL"
        /\ \A suffix \in IntegerSuffixes :
               input = <<"1">> \o suffix \o <<";">> =>
                   ok.val = <<Token("INTEGER", "1" \o Text(suffix)), Token("SEMICOLON", ";"),
                              Token("EOF", "")>>

(* Properties of the parser. *)
\* C25: for every token list that ends with EOF, parse returns a Program or
\* raises ParserError: no loop of the parser iterates without consuming a token.
C25_ParseReturnsOrRaises ==
    stage # "source" =>
        /\ stage \in {"parsed", "parse error"}
        /\ parse(input).exc.cls \in {"none", "ParserError"}

\* the precedence table, from the lowest level to the highest
PrecedenceTable ==
    << AssignmentOperators,
       {<<"?">>},
       {<<"|", "|">>}, {<<"&", "&">>}, {<<"|">>}, {<<"^">>}, {<<"&">>},
       {<<"=", "=">>, <<"!", "=">>},
       {<<"<">>, <<">">>, <<"<", "=">>, <<">", "=">>, <<"<", "=", ">">>},
       {<<"<", "<">>, <<">", ">">>},
       {<<"+">>, <<"-">>},
       {<<"*">>, <<"/">>, <<"%">>} >>
LevelOf(operator) == CHOOSE i \in 1..Len(PrecedenceTable) : operator \in PrecedenceTable[i]
\* the node of one operator over two operands
Applied(left, operator, right) ==
    IF operator \in AssignmentOperators
    THEN AssignmentExpression(left, Text(operator), right)
    ELSE BinaryExpression(left, Text(operator), right)
\* the tree of "x first e second u": the first operator is applied first when
\* it is on the higher level, or on the same level of a left-associative level
Grouped(first, second) ==
    IF \/ LevelOf(first) > LevelOf(second)
       \/ LevelOf(first) = LevelOf(second) /\ first \notin AssignmentOperators
    THEN Applied(Applied(Identifier("x"), first, Identifier("e")), second, Identifier("u"))
    ELSE Applied(Identifier("x"), first, Applied(Identifier("e"), second, Identifier("u")))
\* the tree of a source of TernarySources
GroupedTernary(words) ==
    IF Len(words) = 9 /\ words[4] = <<":">>
    THEN TernaryExpression(Identifier("x"), Identifier("e"),
                           TernaryExpression(Identifier("u"), Identifier("x"),
                                             Identifier("e")))
    ELSE IF Len(words) = 9
    THEN TernaryExpression(Identifier("x"),
                           TernaryExpression(Identifier("e"), Identifier("u"),
                                             Identifier("x")),
                           Identifier("e"))
    ELSE IF words[2] = <<"=">>
    THEN AssignmentExpression(Identifier("x"), "=",
                              TernaryExpression(Identifier("e"), Identifier("u"),
                                                Identifier("x")))
    ELSE IF words[2] = <<"?">>
    THEN TernaryExpression(Identifier("x"), Identifier("e"),
                           Applied(Identifier("u"), words[6], Identifier("x")))
    ELSE TernaryExpression(Applied(Identifier("x"), words[2], Identifier("e")),
                           Identifier("u"), Identifier("x"))
\* C26: parse_expression consumes the whole expression and builds the tree of
\* the precedence table: the operator on the higher level binds tighter, two
\* operators on one binary level group to the left, assignments and ternaries
\* group to the right.
C26_TreeFollowsPrecedenceTable ==
    stage = "expression parsed" =>
        /\ ok.exc = NoException
        /\ ok.rest = <<Token("EOF", "")>>
        /\ input \in TwoOperatorSources => ok.val = Grouped(input[2], input[4])
        /\ input \in TernarySources => ok.val = GroupedTernary(input)
C26_Witness ==
    /\ stage = "expression parsed"
    /\ input = <<<<"x">>, <<"-">>, <<"e">>, <<"-">>, <<"u">>>>
    /\ ok.val = BinaryExpression(BinaryExpression(Identifier("x"), "-", Identifier("e")),
                                 "-", Identifier("u"))

(* Properties of the lowering of loops. *)
\* the continue statements of a statement that belong to the loop around it:
\* those in no loop nested in the statement
RECURSIVE OwnContinues(_)
OwnContinues(s) ==
    LET RECURSIVE Sum(_, _)
        Sum(statements, i) ==
            IF i > Len(statements) THEN 0
            ELSE OwnContinues(statements[i]) + Sum(statements, i + 1)
        RECURSIVE Clauses(_)
        Clauses(i) ==
            IF i > Len(s.cases) THEN 0 ELSE Sum(s.cases[i].statements, 1) + Clauses(i + 1)
    IN  CASE s.kind = "ContinueStatement" -> 1
          [] s.kind = "IfStatement" ->
                 OwnContinues(s.then_statement) + OwnContinues(s.else_statement)
          [] s.kind = "CompoundStatement" -> Sum(s.statements, 1)
          [] s.kind = "SwitchStatement" -> Clauses(1)
          [] OTHER -> 0
\* the break statements of a statement that belong to the loop around it: those
\* in no loop and no switch nested in the statement
RECURSIVE OwnBreaks(_)
OwnBreaks(s) ==
    LET RECURSIVE Sum(_, _)
        Sum(statements, i) ==
            IF i > Len(statements) THEN 0
            ELSE OwnBreaks(statements[i]) + Sum(statements, i + 1)
    IN  CASE s.kind = "BreakStatement" -> 1
          [] s.kind = "IfStatement" ->
                 OwnBreaks(s.then_statement) + OwnBreaks(s.else_statement)
          [] s.kind = "CompoundStatement" -> Sum(s.statements, 1)
          [] OTHER -> 0
\* the GOTO instructions to a label
GotosTo(instrs, label) ==
    {i \in 1..Len(instrs) : instrs[i].opcode = "GOTO" /\ instrs[i].label = label}
\* the statements of the body of the first function of the program
BodyOfFirst == IF ast # <<>> /\ ast[1].kind = "FunctionDeclaration" /\ ast[1].body # NoNode
               THEN ast[1].body.statements ELSE <<>>
\* the loops of a kind that are statements of that body
LoopsOfFirst(kind) == {k \in 1..Len(BodyOfFirst) : BodyOfFirst[k].kind = kind}
Least(S) == CHOOSE i \in S : \A j \in S : i <= j
Greatest(S) == CHOOSE i \in S : \A j \in S : j <= i
C29_DoContinuesAtCondition ==
    (stage = "generated" /\ LoopsOfFirst("DoWhileStatement") # {}) =>
        LET do == BodyOfFirst[Least(LoopsOfFirst("DoWhileStatement"))]
            instrs == Generated(1)
            start == Least(LabelsAt(instrs))
            back == Greatest({i \in 1..Len(instrs) :
                                 /\ instrs[i].opcode = "IF_TRUE"
                                 /\ instrs[i].label = instrs[start].label})
            do_end == instrs[back + 1].label
        IN  /\ instrs[back + 1].opcode = "LABEL"
            /\ instrs[back - 1].opcode = "LT" /\ instrs[back].arg1 = instrs[back - 1].result
            /\ \A i \in JumpsAt(instrs) : instrs[i].label = instrs[start].label => i = back
            /\ Cardinality(GotosTo(instrs, do_end)) = OwnBreaks(do.body)
            /\ (Len(BodyOfFirst) = 3 /\ do.body = ContinueStatement) =>
                   Run(instrs, 0, 0) = [r |-> "return", v |-> <<0>>]

(* Properties of the lowering of increments. *)
\* C28: after "y = x++" y holds the value x had before and x that value plus
\* one, after "y = ++x" both hold that value plus one; likewise for "--" and
\* minus one.
C28_PostfixYieldsOldValue ==
    (stage = "generated" /\ ast \in IncrementPrograms) =>
        LET assigned == ast[1].body.statements[1].expression.value
            returned == ast[1].body.statements[2].value
            step == IF assigned.operator = "++" THEN 1 ELSE -1
        IN  \A p \in Values, x \in Values :
                Run(Generated(1), p, x) =
                    [r |-> "return",
                     v |-> IF returned = Y /\ assigned.is_postfix THEN <<x>>
                           ELSE <<x + step>>]

(* Properties of dead code elimination. *)
\* the functions generated for a constructor
ConstructorFunctions(declaration) ==
    {i \in 1..Len(ir0) : ir0[i].name = declaration.class_name \o "::constructor"}
\* C30: dead_code_elimination keeps the ASSIGN to a class member that a member
\* initializer of a constructor emitted, also when the constructor reads the
\* member nowhere.
C30_MemberAssignmentsKept ==
    stage # "ast" =>
        \A d \in 1..Len(ast) : ast[d].kind = "ConstructorDeclaration" =>
            \A i \in ConstructorFunctions(ast[d]) :
                \A m \in 1..Len(ast[d].initializer_list) :
                    LET kept == dead_code_elimination([instructions |-> Generated(i),
                                                       changed |-> FALSE]).instructions
                    IN  \E k \in 1..Len(kept) :
                            /\ kept[k].opcode = "ASSIGN"
                            /\ kept[k].result =
                                   IRVariable(ast[d].initializer_list[m].member_name)
====
